-------------------------- MODULE ForwardingProofs --------------------------
(***************************************************************************)
(* Proofs about Forwarding, for every arrangement of nodes and links, all  *)
(* routes (loops among them), sizes of the cache and of the queue, and     *)
(* bounds.  The operators of Forwarding map a record to the next one, so   *)
(* the invariant is stated of such a record, Good(s), and a handler keeps  *)
(* it when it makes a good record of a good one.                           *)
(***************************************************************************)
EXTENDS Forwarding, InductionLemmas

-----------------------------------------------------------------------------
(* The inductive invariant.                                                *)

(* The frames that are sent: a packet goes to the station of its next hop. *)
SentFrame == {f \in Frame : f.type = "IP" => f.mac = f.hop}

(* What is learnt from ARP: an interface's MAC for its address.            *)
Learnt == {e \in [ip: Addresses, mac: Ifaces] : e.mac = e.ip}

(* A cache: within its size, and one entry for an address.                 *)
CacheOk(c) ==
  /\ c \in Seq(Learnt)
  /\ Len(c) <= CacheSize
  /\ \A j, k \in 1 .. Len(c) : c[j].ip = c[k].ip => j = k

Queue == [Slots -> Waiting \cup {Nothing}]

(* The records that the operators of Forwarding map.                       *)
Records ==
  {s \in [wire: [Ifaces -> Seq(SentFrame)], cache: [Nodes -> Seq(Learnt)],
          pending: [Nodes -> Queue]] :
     \A n \in Nodes : CacheOk(s.cache[n])}

(* NoPendingResolved of a record.                                          *)
Unresolved(s) ==
  \A n \in Nodes, k \in Slots :
    s.pending[n][k] # Nothing => ArpCacheLookup(s, n, s.pending[n][k].target) = {}

Good(s) == s \in Records /\ Unresolved(s)

Scalars ==
  /\ up \subseteq Ifaces
  /\ sockets \subseteq Nodes \ Routers
  /\ packets \in 0 .. MaxPackets /\ arps \in 0 .. MaxArps
  /\ faults \in Seq({"loss", "flap", "cleanup"}) /\ Len(faults) <= MaxFaults

Inv == Good(State) /\ Scalars

-----------------------------------------------------------------------------
(* Lemmas about records.                                                   *)

(* Node gives every interface its node, and Peer its other end.            *)
LEMMA Ends ==
  ASSUME NEW i \in Ifaces
  PROVE  Node[i] \in Nodes /\ Peer[i] \in Ifaces /\ Peer[Peer[i]] = i /\ i \in Addresses
BY PeerAssumption, AddressAssumption DEF Nodes

(* The fields of a record.                                                 *)
LEMMA Fields ==
  ASSUME NEW s \in Records
  PROVE  /\ s = [wire |-> s.wire, cache |-> s.cache, pending |-> s.pending]
         /\ s.wire \in [Ifaces -> Seq(SentFrame)]
         /\ s.cache \in [Nodes -> Seq(Learnt)] /\ \A n \in Nodes : CacheOk(s.cache[n])
         /\ s.pending \in [Nodes -> Queue]
BY DEF Records

(* What is appended to a sequence is the one entry that is new.            *)
LEMMA EntriesAppend ==
  ASSUME NEW S, NEW q \in Seq(S), NEW f \in S
  PROVE  Append(q, f) \in Seq(S) /\ Entries(Append(q, f)) = Entries(q) \cup {f}
<1>1. Append(q, f) \in Seq(S) /\ Len(Append(q, f)) = Len(q) + 1 /\ Len(q) \in Nat
  OBVIOUS
<1>2. \A k \in 1 .. Len(q) : Append(q, f)[k] = q[k]
  OBVIOUS
<1>3. Append(q, f)[Len(q) + 1] = f
  OBVIOUS
<1> DEFINE r == Append(q, f)
<1> HIDE DEF r
<1>4. Entries(q) \cup {f} \subseteq Entries(r)
  <2>1. ASSUME NEW k \in 1 .. Len(q) PROVE q[k] \in Entries(r)
    <3>1. k \in 1 .. Len(r) /\ q[k] = r[k]
      BY <1>1, <1>2 DEF r
    <3> QED BY <3>1 DEF Entries
  <2>2. f \in Entries(r)
    <3>1. Len(r) \in 1 .. Len(r) /\ r[Len(r)] = f
      BY <1>1, <1>3 DEF r
    <3> QED BY <3>1 DEF Entries
  <2> QED BY <2>1, <2>2 DEF Entries
<1>5. Entries(r) \subseteq Entries(q) \cup {f}
  <2> SUFFICES ASSUME NEW k \in 1 .. Len(r) PROVE r[k] \in Entries(q) \cup {f}
    BY DEF Entries
  <2>1. k \in 1 .. Len(q) \/ k = Len(q) + 1
    BY <1>1 DEF r
  <2>2. CASE k \in 1 .. Len(q)
    BY <1>2, <2>2 DEF Entries, r
  <2>3. CASE k = Len(q) + 1
    BY <1>3, <2>3 DEF r
  <2> QED BY <2>1, <2>2, <2>3
<1> QED BY <1>1, <1>4, <1>5 DEF r

-----------------------------------------------------------------------------
(* Sending.                                                                *)

(* ethernet_send adds at most its frame, at the other end of the link, and *)
(* leaves caches and queues alone.                                         *)
LEMMA SendIs ==
  ASSUME NEW s \in Records, NEW i \in Ifaces, NEW f \in SentFrame
  PROVE  LET t == EthernetSend(s, i, f)
         IN  t \in Records /\ t.cache = s.cache /\ t.pending = s.pending
<1> DEFINE t == EthernetSend(s, i, f)
           j == Peer[i]
           q == Append(s.wire[j], f)
<1>1. CASE ~CanSend(i)
  BY <1>1 DEF EthernetSend
<1>2. CASE CanSend(i)
  <2>1. j \in Ifaces
    BY Ends
  <2>2. /\ s = [wire |-> s.wire, cache |-> s.cache, pending |-> s.pending]
        /\ s.wire \in [Ifaces -> Seq(SentFrame)]
        /\ s.cache \in [Nodes -> Seq(Learnt)] /\ \A n \in Nodes : CacheOk(s.cache[n])
        /\ s.pending \in [Nodes -> Queue]
    BY Fields
  <2>3. q \in Seq(SentFrame)
    BY <2>1, <2>2
  <2>4. t = [wire |-> [s.wire EXCEPT ![j] = q], cache |-> s.cache, pending |-> s.pending]
    <3>1. t = [s EXCEPT !.wire[j] = q]
      BY <1>2 DEF EthernetSend
    <3> HIDE DEF t, q
    <3> QED BY <2>2, <3>1
  <2> HIDE DEF q, t, j
  <2>5. [s.wire EXCEPT ![j] = q] \in [Ifaces -> Seq(SentFrame)]
    BY <2>2, <2>3
  <2>6. t \in Records
    BY <2>2, <2>4, <2>5 DEF Records
  <2> QED BY <2>4, <2>6 DEF t
<1> QED BY <1>1, <1>2

(* Records with the same caches and queues are resolved alike.             *)
LEMMA SameUnresolved ==
  ASSUME NEW s, NEW t, t.cache = s.cache, t.pending = s.pending, Unresolved(s)
  PROVE  Unresolved(t)
BY DEF Unresolved, ArpCacheLookup

(* ethernet_send keeps a good record good.                                 *)
LEMMA SendGood ==
  ASSUME NEW s, Good(s), NEW i \in Ifaces, NEW f \in SentFrame
  PROVE  Good(EthernetSend(s, i, f))
BY SendIs, SameUnresolved DEF Good

(* The frames that are sent are in order.                                  *)
LEMMA IpFrameSent ==
  ASSUME NEW mac \in Ifaces, NEW p \in Packet
  PROVE  IpFrame(mac, mac, p) \in SentFrame
<1>1. mac \in Addresses
  BY Ends
<1>2. IpFrame(mac, mac, p) \in Frame
  BY <1>1 DEF IpFrame, Frame
<1> QED BY <1>2 DEF SentFrame, IpFrame

(* ARP requests and replies are frames.                                    *)
LEMMA ArpFrameSent ==
  ASSUME NEW i \in Ifaces, NEW target \in Addresses
  PROVE  /\ [type |-> "REQUEST", mac |-> "broadcast", sender |-> i, target |-> target]
              \in SentFrame
         /\ \A mac \in Ifaces :
              [type |-> "REPLY", mac |-> mac, sender |-> i, target |-> target] \in SentFrame
BY DEF SentFrame, Frame

(* The lookup of an address that is known gives the address's own MAC.     *)
LEMMA LookupIs ==
  ASSUME NEW s \in Records, NEW n \in Nodes, NEW ip,
         ArpCacheLookup(s, n, ip) # {}
  PROVE  ip \in Ifaces /\ (CHOOSE mac \in ArpCacheLookup(s, n, ip) : TRUE) = ip
<1> DEFINE known == ArpCacheLookup(s, n, ip)
<1>1. s.cache[n] \in Seq(Learnt)
  BY Fields DEF CacheOk
<1>2. \A e \in Entries(s.cache[n]) : e \in Learnt
  BY <1>1 DEF Entries
<1>3. \A mac \in known : mac = ip /\ mac \in Ifaces
  BY <1>2 DEF ArpCacheLookup, Learnt
<1> HIDE DEF known
<1>4. known # {}
  BY DEF known
<1>5. (CHOOSE mac \in known : TRUE) \in known
  BY <1>4
<1>6. (CHOOSE mac \in known : TRUE) = ip /\ ip \in Ifaces
  BY <1>3, <1>5
<1> QED BY <1>6 DEF known

-----------------------------------------------------------------------------
(* The queue of waiting packets.                                           *)

(* arp_pending_enqueue writes the packet into at most one slot.            *)
LEMMA EnqueueIs ==
  ASSUME NEW s \in Records, NEW i \in Ifaces, NEW target \in Addresses, NEW p \in Packet
  PROVE  LET n == Node[i]
             t == ArpPendingEnqueue(s, n, i, target, p)
         IN  /\ t \in Records /\ t.wire = s.wire /\ t.cache = s.cache
             /\ \A m \in Nodes, k \in Slots :
                  \/ t.pending[m][k] = s.pending[m][k]
                  \/ m = n /\ t.pending[m][k] = [target |-> target, iface |-> i, pkt |-> p]
<1> DEFINE n == Node[i]
           t == ArpPendingEnqueue(s, n, i, target, p)
           w == [target |-> target, iface |-> i, pkt |-> p]
           free == FreePending(s, n)
           x == CHOOSE j \in free : \A l \in free : j <= l
<1>1. CASE free = {}
  BY <1>1 DEF ArpPendingEnqueue
<1>2. CASE free # {}
  <2>1. n \in Nodes
    BY Ends
  <2>2. x \in Slots
    <3>1. free \in SUBSET Slots /\ free \in SUBSET Nat
      BY SizesAssumption DEF FreePending, Slots
    <3> HIDE DEF free
    <3>2. \E j \in free : \A l \in free : j <= l
      BY <1>2, <3>1, NatMin
    <3> QED BY <3>1, <3>2
  <2>3. w \in Waiting
    BY DEF Waiting
  <2>4. /\ s = [wire |-> s.wire, cache |-> s.cache, pending |-> s.pending]
        /\ s.pending \in [Nodes -> [Slots -> Waiting \cup {Nothing}]]
    BY Fields DEF Queue
  <2>5. t = [s EXCEPT !.pending[n][x] = w]
    BY <1>2 DEF ArpPendingEnqueue
  <2> HIDE DEF t, w, x, n
  <2>6. t = [wire |-> s.wire, cache |-> s.cache,
             pending |-> [s.pending EXCEPT ![n] = [s.pending[n] EXCEPT ![x] = w]]]
    BY <2>4, <2>5
  <2> DEFINE u == [s.pending[n] EXCEPT ![x] = w]
  <2>7. u \in [Slots -> Waiting \cup {Nothing}]
        /\ u[x] = w /\ \A k \in Slots : k # x => u[k] = s.pending[n][k]
    BY <2>1, <2>2, <2>3, <2>4
  <2> HIDE DEF u
  <2>8. /\ t.wire = s.wire /\ t.cache = s.cache /\ t.pending = [s.pending EXCEPT ![n] = u]
        /\ t = [wire |-> t.wire, cache |-> t.cache, pending |-> t.pending]
    BY <2>6 DEF u
  <2>9. t.pending \in [Nodes -> Queue]
        /\ t.pending[n] = u /\ \A m \in Nodes : m # n => t.pending[m] = s.pending[m]
    BY <2>1, <2>4, <2>7, <2>8 DEF Queue
  <2>10. t \in Records
    <3>1. /\ s.wire \in [Ifaces -> Seq(SentFrame)]
          /\ s.cache \in [Nodes -> Seq(Learnt)] /\ \A m \in Nodes : CacheOk(s.cache[m])
      BY Fields
    <3>2. t \in [wire: [Ifaces -> Seq(SentFrame)], cache: [Nodes -> Seq(Learnt)],
                 pending: [Nodes -> Queue]]
      BY <2>8, <2>9, <3>1
    <3> QED BY <2>8, <3>1, <3>2 DEF Records
  <2>11. ASSUME NEW m \in Nodes, NEW k \in Slots
         PROVE  t.pending[m][k] = s.pending[m][k] \/ (m = n /\ t.pending[m][k] = w)
    BY <2>7, <2>9
  <2> QED BY <2>8, <2>10, <2>11 DEF t, n, w
<1> QED BY <1>1, <1>2

(* The second half of ip_output and of router_receive: a packet is queued  *)
(* only when its next hop is not known.                                    *)
LEMMA SendToHopGood ==
  ASSUME NEW s, Good(s), NEW i \in Ifaces, NEW hop \in Addresses, NEW p \in Packet
  PROVE  Good(SendToHop(s, i, hop, p))
<1> DEFINE n == Node[i]
           known == ArpCacheLookup(s, n, hop)
<1>1. s \in Records /\ Unresolved(s) /\ n \in Nodes
  BY Ends DEF Good
<1>2. CASE known # {}
  <2> DEFINE mac == CHOOSE mac \in known : TRUE
  <2>1. hop \in Ifaces /\ mac = hop
    BY <1>1, <1>2, LookupIs
  <2>2. SendToHop(s, i, hop, p) = EthernetSend(s, i, IpFrame(hop, hop, p))
    BY <1>2, <2>1 DEF SendToHop
  <2>3. IpFrame(hop, hop, p) \in SentFrame
    BY <2>1, IpFrameSent
  <2> QED BY <2>2, <2>3, SendGood
<1>3. CASE known = {} /\ ~CanSend(i)
  BY <1>3 DEF SendToHop
<1>4. CASE known = {} /\ CanSend(i)
  <2> DEFINE a == ArpSendRequest(s, i, hop)
             t == ArpPendingEnqueue(a, n, i, hop, p)
             w == [target |-> hop, iface |-> i, pkt |-> p]
  <2>1. SendToHop(s, i, hop, p) = t
    BY <1>4 DEF SendToHop
  <2>2. a \in Records /\ a.cache = s.cache /\ a.pending = s.pending
    BY <1>1, ArpFrameSent, SendIs DEF ArpSendRequest
  <2> HIDE DEF a
  <2>3. /\ t \in Records /\ t.cache = a.cache
        /\ \A m \in Nodes, k \in Slots :
             t.pending[m][k] = a.pending[m][k] \/ (m = n /\ t.pending[m][k] = w)
    BY <2>2, EnqueueIs
  <2>4. w.target = hop
    OBVIOUS
  <2> HIDE DEF t, w
  <2>5. Unresolved(t)
    <3> SUFFICES ASSUME NEW m \in Nodes, NEW k \in Slots, t.pending[m][k] # Nothing
                 PROVE  ArpCacheLookup(t, m, t.pending[m][k].target) = {}
      BY DEF Unresolved
    <3>1. \A ip : ArpCacheLookup(t, m, ip) = ArpCacheLookup(s, m, ip)
      BY <2>2, <2>3 DEF ArpCacheLookup
    <3>2. CASE t.pending[m][k] = s.pending[m][k]
      BY <1>1, <3>1, <3>2 DEF Unresolved
    <3>3. CASE m = n /\ t.pending[m][k] = w
      BY <1>4, <2>4, <3>1, <3>3
    <3> QED BY <2>2, <2>3, <3>2, <3>3
  <2> QED BY <2>1, <2>3, <2>5 DEF Good
<1> QED BY <1>2, <1>3, <1>4

(* A new packet, and ip_output of a packet.                                *)
LEMMA NewPacketType ==
  ASSUME NEW src \in Ifaces, NEW dst \in Addresses, NEW kind \in {"udp", "echo", "reply", "error"}
  PROVE  NewPacket(src, dst, kind) \in Packet
BY SizesAssumption DEF NewPacket, Packet

(* ip_output of any packet.                                                *)
LEMMA IpOutputGood ==
  ASSUME NEW s, Good(s), NEW p \in Packet
  PROVE  Good(IpOutput(s, p))
<1>1. p.src \in Ifaces /\ p.dst \in Addresses
  BY DEF Packet
<1> QED BY <1>1, SendToHopGood DEF IpOutput

-----------------------------------------------------------------------------
(* Learning an address.                                                    *)

(* The entries for other addresses are entries of the cache, in order.     *)
LEMMA OthersIs ==
  ASSUME NEW c, CacheOk(c), NEW ip
  PROVE  /\ Others(c, ip) \in Seq(Learnt) /\ Len(Others(c, ip)) <= CacheSize
         /\ \A j, k \in 1 .. Len(Others(c, ip)) :
              Others(c, ip)[j].ip = Others(c, ip)[k].ip => j = k
         /\ \A k \in 1 .. Len(Others(c, ip)) :
              Others(c, ip)[k].ip # ip /\ Others(c, ip)[k] \in Entries(c)
<1> DEFINE at == {k \in 1 .. Len(c) : c[k].ip = ip}
           o == Others(c, ip)
<1>1. /\ c \in Seq(Learnt) /\ Len(c) \in Nat /\ Len(c) <= CacheSize /\ CacheSize \in Nat
      /\ \A j, k \in 1 .. Len(c) : c[j].ip = c[k].ip => j = k
      /\ \A k \in 1 .. Len(c) : c[k] \in Learnt /\ c[k] \in Entries(c)
  BY SizesAssumption DEF CacheOk, Entries
<1>2. CASE at = {}
  <2>1. o = c
    BY <1>2 DEF Others
  <2>2. \A k \in 1 .. Len(c) : c[k].ip # ip
    BY <1>2
  <2> QED BY <1>1, <2>1, <2>2
<1>3. CASE at # {}
  <2> DEFINE x == CHOOSE k \in at : TRUE
             g(j) == IF j < x THEN j ELSE j + 1
             L == Len(c) - 1
  <2>1. x \in 1 .. Len(c) /\ c[x].ip = ip
    BY <1>3
  <2>2. o = [j \in 1 .. L |-> c[g(j)]]
    BY <1>3 DEF Others
  <2> HIDE DEF x, o
  <2>3. L \in Nat /\ L <= CacheSize
    BY <1>1, <2>1
  <2>4. \A j \in 1 .. L : g(j) \in 1 .. Len(c) /\ g(j) # x
    BY <1>1, <2>1
  <2>5. \A j, k \in 1 .. L : g(j) = g(k) => j = k
    BY <1>1, <2>1
  <2> HIDE DEF g, L
  <2>6. \A j \in 1 .. L : o[j] = c[g(j)] /\ o[j] \in Learnt
    BY <1>1, <2>2, <2>4
  <2>7. o \in Seq(Learnt) /\ Len(o) = L
    BY <2>2, <2>3, <2>6
  <2>8. \A j \in 1 .. L : o[j].ip # ip /\ o[j] \in Entries(c)
    BY <1>1, <2>1, <2>4, <2>6
  <2>9. \A j, k \in 1 .. L : o[j].ip = o[k].ip => j = k
    BY <1>1, <2>4, <2>5, <2>6
  <2> QED BY <2>3, <2>7, <2>8, <2>9 DEF o
<1> QED BY <1>2, <1>3

(* arp_cache_add touches no wire and no queue, and no address but ip comes *)
(* to be known.                                                            *)
LEMMA AddIs ==
  ASSUME NEW s \in Records, NEW n \in Nodes, NEW ip \in Ifaces
  PROVE  LET t == ArpCacheAdd(s, n, ip, ip)
         IN  /\ t \in Records /\ t.wire = s.wire /\ t.pending = s.pending
             /\ \A m \in Nodes : \A a :
                  ArpCacheLookup(s, m, a) = {} /\ (m = n => a # ip) =>
                    ArpCacheLookup(t, m, a) = {}
<1> DEFINE t == ArpCacheAdd(s, n, ip, ip)
           o == Others(s.cache[n], ip)
           e == [ip |-> ip, mac |-> ip]
           c == Append(o, e)
<1>1. CASE ~(Len(o) < CacheSize)
  BY <1>1 DEF ArpCacheAdd
<1>2. CASE Len(o) < CacheSize
  <2>1. /\ s = [wire |-> s.wire, cache |-> s.cache, pending |-> s.pending]
        /\ s.cache \in [Nodes -> Seq(Learnt)] /\ \A m \in Nodes : CacheOk(s.cache[m])
    BY Fields
  <2>2. /\ o \in Seq(Learnt)
        /\ \A j, k \in 1 .. Len(o) : o[j].ip = o[k].ip => j = k
        /\ \A k \in 1 .. Len(o) : o[k].ip # ip /\ o[k] \in Entries(s.cache[n])
    BY <2>1, OthersIs
  <2>3. e \in Learnt /\ e.ip = ip
    BY Ends DEF Learnt
  <2>4. t = [s EXCEPT !.cache[n] = c]
    BY <1>2 DEF ArpCacheAdd
  <2> HIDE DEF o, e, t
  <2>5. c \in Seq(Learnt) /\ Len(c) = Len(o) + 1 /\ Len(o) \in Nat /\ c[Len(o) + 1] = e
        /\ \A k \in 1 .. Len(o) : c[k] = o[k]
    BY <2>2, <2>3
  <2>6. Entries(c) = Entries(o) \cup {e}
    BY <2>2, <2>3, EntriesAppend
  <2> HIDE DEF c
  <2>7. CacheOk(c)
    <3>1. Len(c) <= CacheSize
      BY <1>2, <2>5, SizesAssumption
    <3>2. ASSUME NEW j \in 1 .. Len(c), NEW k \in 1 .. Len(c), c[j].ip = c[k].ip
          PROVE  j = k
      <4>1. /\ j \in 1 .. Len(o) \/ j = Len(o) + 1
            /\ k \in 1 .. Len(o) \/ k = Len(o) + 1
        BY <2>5
      <4> QED BY <2>2, <2>3, <2>5, <3>2, <4>1
    <3> QED BY <2>5, <3>1, <3>2 DEF CacheOk
  <2>8. t = [wire |-> s.wire, cache |-> [s.cache EXCEPT ![n] = c], pending |-> s.pending]
    BY <2>1, <2>4
  <2>9. /\ t.wire = s.wire /\ t.pending = s.pending /\ t.cache = [s.cache EXCEPT ![n] = c]
        /\ t = [wire |-> t.wire, cache |-> t.cache, pending |-> t.pending]
    BY <2>8
  <2>10. t.cache \in [Nodes -> Seq(Learnt)] /\ t.cache[n] = c
         /\ \A m \in Nodes : m # n => t.cache[m] = s.cache[m]
    BY <2>1, <2>5, <2>9
  <2>11. t \in Records
    <3>1. /\ s.wire \in [Ifaces -> Seq(SentFrame)]
          /\ s.pending \in [Nodes -> Queue]
      BY Fields
    <3>2. t \in [wire: [Ifaces -> Seq(SentFrame)], cache: [Nodes -> Seq(Learnt)],
                 pending: [Nodes -> Queue]]
      BY <2>9, <2>10, <3>1
    <3>3. \A m \in Nodes : CacheOk(t.cache[m])
      BY <2>1, <2>7, <2>10
    <3> QED BY <2>9, <3>1, <3>2, <3>3 DEF Records
  <2>12. ASSUME NEW m \in Nodes, NEW a, ArpCacheLookup(s, m, a) = {}, m = n => a # ip
         PROVE  ArpCacheLookup(t, m, a) = {}
    <3>1. CASE m # n
      BY <2>10, <2>12, <3>1 DEF ArpCacheLookup
    <3>2. CASE m = n
      <4>1. \A y \in Entries(s.cache[n]) : y.ip # a
        BY <2>12, <3>2 DEF ArpCacheLookup
      <4>2. \A y \in Entries(c) : y \in Entries(s.cache[n]) \/ y = e
        BY <2>2, <2>6 DEF Entries
      <4>3. \A y \in Entries(t.cache[m]) : y.ip # a
        BY <2>3, <2>10, <2>12, <3>2, <4>1, <4>2
      <4> QED BY <4>3 DEF ArpCacheLookup
    <3> QED BY <3>1, <3>2
  <2> QED BY <2>9, <2>11, <2>12 DEF t
<1> QED BY <1>1, <1>2

(* One turn of the loop of arp_pending_flush, for an address that is its   *)
(* own MAC.                                                                *)
FlushSlot(t, n, k, ip) ==
  LET w == t.pending[n][k]
  IN  IF Released(t, n, k, ip)
      THEN EthernetSend([t EXCEPT !.pending[n][k] = Nothing], w.iface,
                        IpFrame(ip, w.target, w.pkt))
      ELSE t

(* The queues of t are those of s, but for slots that are free now.        *)
Freed(s, t) ==
  \A m \in Nodes, k \in Slots :
    t.pending[m][k] = s.pending[m][k] \/ t.pending[m][k] = Nothing

Flushing(s, t) == t \in Records /\ t.cache = s.cache /\ Freed(s, t)

(* One turn of the loop of arp_pending_flush.                              *)
LEMMA FlushSlotIs ==
  ASSUME NEW s \in Records, NEW n \in Nodes, NEW x \in Slots, NEW ip \in Ifaces
  PROVE  Flushing(s, FlushSlot(s, n, x, ip)) /\ ~Released(FlushSlot(s, n, x, ip), n, x, ip)
<1> DEFINE t == FlushSlot(s, n, x, ip)
           w == s.pending[n][x]
<1>1. CASE ~Released(s, n, x, ip)
  <2>1. t = s
    BY <1>1 DEF FlushSlot
  <2> QED BY <1>1, <2>1 DEF Flushing, Freed
<1>2. CASE Released(s, n, x, ip)
  <2> DEFINE a == [s EXCEPT !.pending[n][x] = Nothing]
             u == [s.pending[n] EXCEPT ![x] = Nothing]
  <2>1. /\ s = [wire |-> s.wire, cache |-> s.cache, pending |-> s.pending]
        /\ s.pending \in [Nodes -> [Slots -> Waiting \cup {Nothing}]]
    BY Fields DEF Queue
  <2>2. w \in Waiting /\ w.target = ip
    BY <1>2, <2>1 DEF Released
  <2>3. w.iface \in Ifaces /\ w.pkt \in Packet
    BY <2>2 DEF Waiting
  <2>4. t = EthernetSend(a, w.iface, IpFrame(ip, ip, w.pkt))
    BY <1>2, <2>2 DEF FlushSlot
  <2>5. u \in [Slots -> Waiting \cup {Nothing}]
        /\ u[x] = Nothing /\ \A k \in Slots : k # x => u[k] = s.pending[n][k]
    BY <2>1
  <2>6. a = [wire |-> s.wire, cache |-> s.cache, pending |-> [s.pending EXCEPT ![n] = u]]
    <3>1. a = [s EXCEPT !.pending[n][x] = Nothing]
      OBVIOUS
    <3> HIDE DEF a, t, w
    <3> QED BY <2>1, <3>1
  <2> HIDE DEF a, u, t, w
  <2>7. /\ a.wire = s.wire /\ a.cache = s.cache /\ a.pending = [s.pending EXCEPT ![n] = u]
        /\ a = [wire |-> a.wire, cache |-> a.cache, pending |-> a.pending]
    BY <2>6
  <2>8. a.pending \in [Nodes -> Queue]
        /\ a.pending[n] = u /\ \A m \in Nodes : m # n => a.pending[m] = s.pending[m]
    BY <2>1, <2>5, <2>7 DEF Queue
  <2>9. a \in Records
    <3>1. /\ s.wire \in [Ifaces -> Seq(SentFrame)]
          /\ s.cache \in [Nodes -> Seq(Learnt)] /\ \A m \in Nodes : CacheOk(s.cache[m])
      BY Fields
    <3>2. a \in [wire: [Ifaces -> Seq(SentFrame)], cache: [Nodes -> Seq(Learnt)],
                 pending: [Nodes -> Queue]]
      BY <2>7, <2>8, <3>1
    <3> QED BY <2>7, <3>1, <3>2 DEF Records
  <2>10. IpFrame(ip, ip, w.pkt) \in SentFrame
    BY <2>3, IpFrameSent
  <2>11. t \in Records /\ t.cache = a.cache /\ t.pending = a.pending
    BY <2>3, <2>4, <2>9, <2>10, SendIs
  <2>12. Freed(s, t)
    BY <2>5, <2>8, <2>11 DEF Freed
  <2>13. t.pending[n][x] = Nothing
    BY <2>5, <2>8, <2>11
  <2>14. Flushing(s, t) /\ ~Released(t, n, x, ip)
    BY <2>7, <2>11, <2>12, <2>13 DEF Flushing, Released
  <2> QED BY <2>14 DEF t
<1> QED BY <1>1, <1>2

(* The turns of that loop add up.                                          *)
LEMMA FlushingTransitive ==
  ASSUME NEW s, NEW t, NEW u, Flushing(s, t), Flushing(t, u)
  PROVE  Flushing(s, u)
<1> SUFFICES ASSUME NEW m \in Nodes, NEW k \in Slots
             PROVE  u.pending[m][k] = s.pending[m][k] \/ u.pending[m][k] = Nothing
  BY DEF Flushing, Freed
<1>1. u.pending[m][k] = t.pending[m][k] \/ u.pending[m][k] = Nothing
  BY DEF Flushing, Freed
<1>2. t.pending[m][k] = s.pending[m][k] \/ t.pending[m][k] = Nothing
  BY DEF Flushing, Freed
<1> QED BY <1>1, <1>2

(* The whole loop: no packet for the address waits when it ends, on any    *)
(* interface of the node.                                                  *)
LEMMA FlushIs ==
  ASSUME NEW s \in Records, NEW n \in Nodes, NEW ip \in Ifaces
  PROVE  LET t == ArpPendingFlush(s, n, ip, ip)
         IN  Flushing(s, t) /\ \A k \in Slots : ~Released(t, n, k, ip)
<1> DEFINE L == PendingSize
           turn(k, t) == FlushSlot(t, n, k, ip)
           g == [x \in (1 .. L) \X Records |-> turn(x[1], x[2])]
           Run(f) == f = [k \in 0 .. L |-> IF k = 0 THEN s ELSE turn(k, f[k - 1])]
           h == CHOOSE f : Run(f)
<1>1. L \in Nat /\ Slots = 1 .. L
  BY SizesAssumption DEF Slots
<1>2. \A k \in 1 .. L, t \in Records :
        Flushing(t, turn(k, t)) /\ ~Released(turn(k, t), n, k, ip)
  BY <1>1, FlushSlotIs
<1>3. \A k \in 1 .. L, t \in Records : turn(k, t) \in Records
  BY <1>2 DEF Flushing
<1>4. ArpPendingFlush(s, n, ip, ip) = h[L]
  BY DEF ArpPendingFlush, FlushSlot
<1> HIDE DEF turn, L
<1>5. g \in Turns(L, Records)
  BY <1>3 DEF Turns
<1> HIDE DEF g
<1>6. PICK f : LoopOf(L, Records, s, g, f)
  BY <1>1, <1>5, LoopExists, Zenon
<1>7. \A k \in 1 .. L : f[k] = turn(k, f[k - 1])
  <2> SUFFICES ASSUME NEW k \in 1 .. L PROVE f[k] = turn(k, f[k - 1])
    OBVIOUS
  <2>1. k - 1 \in 0 .. L
    BY <1>1
  <2>2. <<k, f[k - 1]>> \in (1 .. L) \X Records
    BY <1>6, <2>1 DEF LoopOf
  <2> QED BY <1>6, <2>2 DEF LoopOf, g
<1>8. Run(f)
  BY <1>1, <1>6, <1>7 DEF LoopOf
<1>9. Run(h)
  BY <1>8, Zenon
<1> HIDE DEF h
<1>10. h[0] = s /\ \A k \in 1 .. L : h[k] = turn(k, h[k - 1])
  <2>1. 0 \in 0 .. L /\ \A k \in 1 .. L : k \in 0 .. L /\ k # 0
    BY <1>1
  <2>2. \A k \in 0 .. L : h[k] = IF k = 0 THEN s ELSE turn(k, h[k - 1])
    BY <1>9, Zenon
  <2> QED BY <2>1, <2>2, Zenon
<1> DEFINE Done(m) == Flushing(s, h[m]) /\ \A k \in 1 .. m : ~Released(h[m], n, k, ip)
           P == {m \in 0 .. L : Done(m)}
<1>11. 0 \in P
  BY <1>1, <1>10 DEF Flushing, Freed
<1>12. ASSUME NEW m \in 1 .. L, m - 1 \in P
       PROVE  m \in P
  <2>1. Done(m - 1) /\ h[m - 1] \in Records
    BY <1>12 DEF Flushing
  <2>2. Flushing(h[m - 1], h[m]) /\ ~Released(h[m], n, m, ip)
    BY <1>2, <1>10, <2>1
  <2>3. Flushing(s, h[m])
    BY <2>1, <2>2, FlushingTransitive
  <2>4. ASSUME NEW k \in 1 .. m - 1 PROVE ~Released(h[m], n, k, ip)
    <3>1. k \in Slots
      BY <1>1
    <3>2. \/ h[m].pending[n][k] = h[m - 1].pending[n][k]
          \/ h[m].pending[n][k] = Nothing
      BY <2>2, <3>1 DEF Flushing, Freed
    <3>3. ~Released(h[m - 1], n, k, ip)
      BY <2>1
    <3> QED BY <3>2, <3>3 DEF Released
  <2>5. \A k \in 1 .. m : k \in 1 .. m - 1 \/ k = m
    BY <1>1
  <2>6. Done(m)
    BY <2>2, <2>3, <2>4, <2>5
  <2>7. m \in 0 .. L
    BY <1>1
  <2> HIDE DEF Done
  <2> QED BY <2>6, <2>7
<1> HIDE DEF P
<1>13. \A m \in 0 .. L : m \in P
  BY <1>1, <1>11, <1>12, UpTo
<1>14. Done(L)
  BY <1>1, <1>13 DEF P
<1> QED BY <1>1, <1>4, <1>14

(* Both ARP handlers: learning an address leaves no packet waiting for it. *)
LEMMA LearnGood ==
  ASSUME NEW s, Good(s), NEW i \in Ifaces, NEW f, f.sender \in Ifaces
  PROVE  Good(Learn(s, i, f))
<1> DEFINE n == Node[i]
           ip == f.sender
           a == ArpCacheAdd(s, n, ip, ip)
           t == ArpPendingFlush(a, n, ip, ip)
<1>1. s \in Records /\ Unresolved(s) /\ n \in Nodes
  BY Ends DEF Good
<1>2. /\ a \in Records /\ a.wire = s.wire /\ a.pending = s.pending
      /\ \A m \in Nodes : \A x :
           ArpCacheLookup(s, m, x) = {} /\ (m = n => x # ip) => ArpCacheLookup(a, m, x) = {}
  BY <1>1, AddIs
<1> HIDE DEF a
<1>3. Flushing(a, t) /\ \A k \in Slots : ~Released(t, n, k, ip)
  BY <1>1, <1>2, FlushIs
<1>4. Learn(s, i, f) = t
  BY DEF Learn, a
<1> HIDE DEF t
<1>5. t \in Records /\ t.cache = a.cache /\ Freed(s, t)
  BY <1>2, <1>3 DEF Flushing, Freed
<1>6. Unresolved(t)
  <2> SUFFICES ASSUME NEW m \in Nodes, NEW k \in Slots, t.pending[m][k] # Nothing
               PROVE  ArpCacheLookup(t, m, t.pending[m][k].target) = {}
    BY DEF Unresolved
  <2> DEFINE x == t.pending[m][k].target
  <2>1. t.pending[m][k] = s.pending[m][k]
    BY <1>5 DEF Freed
  <2>2. ArpCacheLookup(s, m, x) = {}
    BY <1>1, <2>1 DEF Unresolved
  <2>3. m = n => x # ip
    BY <1>3 DEF Released
  <2>4. ArpCacheLookup(t, m, x) = ArpCacheLookup(a, m, x)
    BY <1>5 DEF ArpCacheLookup
  <2> QED BY <1>2, <2>2, <2>3, <2>4
<1> QED BY <1>4, <1>5, <1>6 DEF Good

(* arp_request_handler: the one that asked gets its reply.                 *)
LEMMA ArpRequestGood ==
  ASSUME NEW s, Good(s), NEW i \in Ifaces, NEW f, f.sender \in Ifaces
  PROVE  Good(ArpRequest(s, i, f))
<1> DEFINE r == [type |-> "REPLY", mac |-> f.sender, sender |-> i, target |-> f.sender]
<1>1. r \in SentFrame
  BY Ends, ArpFrameSent
<1>2. Good(ArpSendReply(s, i, f))
  BY <1>1, SendGood DEF ArpSendReply
<1> QED BY <1>2, LearnGood DEF ArpRequest

-----------------------------------------------------------------------------
(* Reception.                                                              *)

(* icmp_receive, icmp_send_error, udp_receive and ip_receive.              *)
LEMMA IpReceiveGood ==
  ASSUME NEW s, Good(s), NEW i \in Ifaces, NEW p \in Packet
  PROVE  Good(IpReceive(s, i, p))
<1>1. p.src \in Ifaces /\ p.src \in Addresses
  BY Ends DEF Packet
<1>2. Good(IcmpReceive(s, p))
  <2>1. p.dst \in Ifaces => NewPacket(p.dst, p.src, "reply") \in Packet
    BY <1>1, NewPacketType
  <2> QED BY <2>1, IpOutputGood DEF IcmpReceive
<1>3. Good(UdpReceive(s, i, p))
  <2>1. NewPacket(i, p.src, "error") \in Packet
    BY <1>1, NewPacketType
  <2>2. Good(IcmpSendError(s, i, p))
    BY <2>1, IpOutputGood DEF IcmpSendError
  <2> QED BY <2>2 DEF UdpReceive
<1>4. IpReceive(s, i, p) \in {s, UdpReceive(s, i, p), IcmpReceive(s, p)}
  BY DEF IpReceive
<1> QED BY <1>2, <1>3, <1>4

(* router_receive.                                                         *)
LEMMA RouterReceiveGood ==
  ASSUME NEW s, Good(s), NEW i \in Ifaces, Node[i] \in Routers, NEW p \in Packet
  PROVE  Good(RouterReceive(s, i, p))
<1> DEFINE n == Node[i]
           r == Routes[n][p.dst]
           hop == IF r.hop = "direct" THEN p.dst ELSE r.hop
<1>1. p.dst \in Addresses /\ p.ttl \in 0 .. InitTtl
  BY DEF Packet
<1>2. r \in [iface: Ifaces, hop: Addresses \cup {"direct"}] \cup {NoRoute}
  BY <1>1, RoutesAssumption
<1>3. CASE p.dst \in Ifaces /\ Node[p.dst] = n
  BY <1>3, IpReceiveGood DEF RouterReceive
<1>4. CASE ~(p.dst \in Ifaces /\ Node[p.dst] = n) /\ (p.ttl <= 1 \/ r = NoRoute)
  BY <1>4 DEF RouterReceive
<1>5. CASE ~(p.dst \in Ifaces /\ Node[p.dst] = n) /\ ~(p.ttl <= 1 \/ r = NoRoute)
  <2>1. RouterReceive(s, i, p) = SendToHop(s, r.iface, hop, Forwarded(p))
    BY <1>5 DEF RouterReceive
  <2>2. r.iface \in Ifaces /\ r.hop \in Addresses \cup {"direct"}
    <3> HIDE DEF r
    <3> QED BY <1>2, <1>5
  <2>3. hop \in Addresses
    BY <1>1, <2>2
  <2>4. Forwarded(p) \in Packet
    <3>1. p.ttl - 1 \in 0 .. InitTtl
      BY <1>1, <1>5, SizesAssumption
    <3> QED BY <3>1 DEF Forwarded, Packet
  <2> HIDE DEF hop, r
  <2> QED BY <2>1, <2>2, <2>3, <2>4, SendToHopGood
<1> QED BY <1>3, <1>4, <1>5

(* Everything that the arrival of a frame may do.                          *)
LEMMA ReceivedGood ==
  ASSUME NEW s, Good(s), NEW i \in Ifaces, NEW f \in SentFrame
  PROVE  Good(Received(s, i, f))
<1>1. CASE f.mac # i \/ f.type # "IP"
  BY <1>1 DEF Received
<1>2. CASE f.mac = i /\ f.type = "IP"
  <2>1. f.pkt \in Packet
    BY <1>2 DEF SentFrame, Frame
  <2>2. Node[i] \in Routers => Good(RouterReceive(s, i, f.pkt))
    BY <2>1, RouterReceiveGood
  <2>3. Good(IpReceive(s, i, f.pkt))
    BY <2>1, IpReceiveGood
  <2> QED BY <1>2, <2>2, <2>3 DEF Received
<1> QED BY <1>1, <1>2

-----------------------------------------------------------------------------
(* The steps.                                                              *)

(* The next state is the record that a handler leaves.                     *)
LEMMA BecomesIs ==
  ASSUME NEW t, t \in Records, Becomes(t)
  PROVE  State' = t
<1>1. t = [wire |-> t.wire, cache |-> t.cache, pending |-> t.pending]
  BY Fields
<1> QED BY <1>1 DEF Becomes, State

(* A fault is counted.                                                     *)
LEMMA FaultIs ==
  ASSUME Scalars, NEW kind \in {"loss", "flap", "cleanup"}, Fault(kind)
  PROVE  faults' \in Seq({"loss", "flap", "cleanup"}) /\ Len(faults') <= MaxFaults
BY SizesAssumption DEF Scalars, Fault

(* A host sends by ip_output.                                              *)
LEMMA OutputInv ==
  ASSUME Inv, NEW i \in Senders, NEW dst \in Targets, NEW kind \in {"udp", "echo"},
         Output(i, dst, kind)
  PROVE  Inv'
<1> DEFINE p == NewPacket(i, dst, kind)
           t == IpOutput(State, p)
<1>1. p \in Packet
  BY NewPacketType, SizesAssumption
<1>2. Good(t)
  BY <1>1, IpOutputGood DEF Inv
<1> HIDE DEF p
<1>3. Becomes(t) /\ packets < MaxPackets /\ packets' = packets + 1
      /\ UNCHANGED <<up, sockets, arps, faults>>
  BY DEF Output, p
<1> HIDE DEF t
<1>4. State' = t
  BY <1>2, <1>3, BecomesIs DEF Good
<1>5. Scalars'
  BY <1>3, SizesAssumption DEF Inv, Scalars
<1> QED BY <1>2, <1>4, <1>5 DEF Inv

(* A host sends by its gateway.                                            *)
LEMMA SendViaInv ==
  ASSUME Inv, NEW i \in Senders, NEW dst \in Targets, SendVia(i, dst)
  PROVE  Inv'
<1> DEFINE p == NewPacket(i, dst, "udp")
           f == IpFrame(Peer[i], Peer[i], p)
           t == EthernetSend(State, i, f)
<1>1. p \in Packet /\ i \in Ifaces /\ Peer[i] \in Ifaces
  BY NewPacketType, SizesAssumption, Ends
<1>2. f \in SentFrame
  BY <1>1, IpFrameSent
<1>3. Good(t)
  BY <1>1, <1>2, SendGood DEF Inv
<1>4. Becomes(t) /\ packets < MaxPackets /\ packets' = packets + 1
      /\ UNCHANGED <<up, sockets, arps, faults>>
  BY DEF SendVia
<1> HIDE DEF t
<1>5. State' = t
  BY <1>3, <1>4, BecomesIs DEF Good
<1>6. Scalars'
  BY <1>4, SizesAssumption DEF Inv, Scalars
<1> QED BY <1>3, <1>5, <1>6 DEF Inv

(* udp_bind and udp_unbind.                                                *)
LEMMA BindInv ==
  ASSUME Inv, NEW n \in Nodes, Bind(n) \/ Unbind(n)
  PROVE  Inv'
<1>1. UNCHANGED <<net, up, budget>> /\ sockets' \subseteq Nodes \ Routers
  BY DEF Bind, Unbind, Inv, Scalars
<1>2. State' = State /\ Scalars'
  BY <1>1 DEF State, Scalars, Inv, net, budget
<1> QED BY <1>2 DEF Inv

(* The entries that arp_cache_cleanup leaves make a cache.                 *)
LEMMA TailOk ==
  ASSUME NEW c, CacheOk(c), NEW x \in 1 .. Len(c)
  PROVE  LET d == SubSeq(c, x + 1, Len(c))
         IN  CacheOk(d) /\ Entries(d) \subseteq Entries(c)
<1> DEFINE d == SubSeq(c, x + 1, Len(c))
<1>1. c \in Seq(Learnt) /\ Len(c) \in Nat /\ Len(c) <= CacheSize /\ CacheSize \in Nat
      /\ \A j, k \in 1 .. Len(c) : c[j].ip = c[k].ip => j = k
  BY SizesAssumption DEF CacheOk
<1>2. d \in Seq(Learnt) /\ Len(d) = Len(c) - x
      /\ \A k \in 1 .. Len(c) - x : d[k] = c[x + k]
  BY <1>1
<1> HIDE DEF d
<1>3. \A k \in 1 .. Len(d) : x + k \in 1 .. Len(c) /\ d[k] = c[x + k]
  BY <1>1, <1>2
<1>4. Len(d) <= CacheSize
  BY <1>1, <1>2
<1>5. ASSUME NEW j \in 1 .. Len(d), NEW k \in 1 .. Len(d), d[j].ip = d[k].ip
      PROVE  j = k
  <2>1. x + j = x + k
    BY <1>1, <1>3, <1>5
  <2> QED BY <2>1
<1>6. Entries(d) \subseteq Entries(c)
  BY <1>3 DEF Entries
<1> QED BY <1>2, <1>4, <1>5, <1>6 DEF CacheOk, d

(* arp_cache_cleanup drops an entry that has aged.                         *)
LEMMA CleanupInv ==
  ASSUME Inv, NEW n \in Nodes, Cleanup(n)
  PROVE  Inv'
<1>1. PICK x \in 1 .. Len(cache[n]) :
        cache' = [cache EXCEPT ![n] = SubSeq(cache[n], x + 1, Len(cache[n]))]
  BY DEF Cleanup
<1>2. Fault("cleanup") /\ UNCHANGED <<wire, pending, up, sockets, packets, arps>>
  BY DEF Cleanup
<1> DEFINE d == SubSeq(cache[n], x + 1, Len(cache[n]))
<1>3. /\ State.wire = wire /\ State.cache = cache /\ State.pending = pending
      /\ State'.wire = wire' /\ State'.cache = cache' /\ State'.pending = pending'
  BY DEF State
<1>4. /\ wire \in [Ifaces -> Seq(SentFrame)]
      /\ cache \in [Nodes -> Seq(Learnt)] /\ \A m \in Nodes : CacheOk(cache[m])
      /\ pending \in [Nodes -> Queue]
  BY <1>3, Fields DEF Inv, Good
<1>5. CacheOk(d) /\ Entries(d) \subseteq Entries(cache[n])
  BY <1>4, TailOk
<1>6. cache' = [cache EXCEPT ![n] = d]
  BY <1>1
<1> HIDE DEF d
<1>7. cache' \in [Nodes -> Seq(Learnt)] /\ cache'[n] = d
      /\ \A m \in Nodes : m # n => cache'[m] = cache[m]
  BY <1>4, <1>5, <1>6 DEF CacheOk
<1>8. State' \in Records
  <2>1. [wire |-> wire', cache |-> cache', pending |-> pending']
          \in [wire: [Ifaces -> Seq(SentFrame)], cache: [Nodes -> Seq(Learnt)],
               pending: [Nodes -> Queue]]
    BY <1>2, <1>4, <1>7
  <2>2. \A m \in Nodes : CacheOk(cache'[m])
    BY <1>4, <1>5, <1>7
  <2> QED BY <1>2, <1>4, <2>1, <2>2 DEF Records, State
<1>9. Unresolved(State')
  <2> SUFFICES ASSUME NEW m \in Nodes, NEW k \in Slots, pending[m][k] # Nothing
               PROVE  ArpCacheLookup(State', m, pending[m][k].target) = {}
    BY <1>2, <1>3 DEF Unresolved
  <2>1. ArpCacheLookup(State, m, pending[m][k].target) = {}
    BY <1>3 DEF Inv, Good, Unresolved
  <2>2. Entries(cache'[m]) \subseteq Entries(cache[m])
    BY <1>5, <1>7
  <2> QED BY <1>3, <2>1, <2>2 DEF ArpCacheLookup
<1>10. Scalars'
  BY <1>2, FaultIs DEF Inv, Scalars
<1> QED BY <1>8, <1>9, <1>10 DEF Inv, Good

(* interface_set_up.                                                       *)
LEMMA FlapInv ==
  ASSUME Inv, NEW i \in Ifaces, Flap(i)
  PROVE  Inv'
<1>1. Fault("flap") /\ UNCHANGED <<net, sockets, packets, arps>> /\ up' \subseteq Ifaces
  BY DEF Flap, Inv, Scalars
<1>2. State' = State
  BY <1>1 DEF State, net
<1>3. Scalars'
  BY <1>1, FaultIs DEF Inv, Scalars
<1> QED BY <1>2, <1>3 DEF Inv

(* The record after the oldest frame was taken from a wire.                *)
LEMMA TakenIs ==
  ASSUME Inv, NEW i \in Ifaces, wire[i] # <<>>
  PROVE  LET s == [State EXCEPT !.wire[i] = Tail(@)]
         IN  /\ s = [wire |-> [wire EXCEPT ![i] = Tail(wire[i])], cache |-> cache,
                     pending |-> pending]
             /\ Good(s) /\ Head(wire[i]) \in SentFrame
<1> DEFINE s == [State EXCEPT !.wire[i] = Tail(@)]
           r == [wire EXCEPT ![i] = Tail(wire[i])]
<1>1. State = [wire |-> wire, cache |-> cache, pending |-> pending]
      /\ State.wire = wire /\ State.cache = cache /\ State.pending = pending
  BY DEF State
<1>2. /\ wire \in [Ifaces -> Seq(SentFrame)]
      /\ cache \in [Nodes -> Seq(Learnt)] /\ \A m \in Nodes : CacheOk(cache[m])
      /\ pending \in [Nodes -> Queue]
  BY <1>1, Fields DEF Inv, Good
<1>3. wire[i] \in Seq(SentFrame)
  BY <1>2
<1>4. Tail(wire[i]) \in Seq(SentFrame) /\ Head(wire[i]) \in SentFrame
  BY <1>3
<1>5. r \in [Ifaces -> Seq(SentFrame)]
  BY <1>2, <1>4
<1>6. s = [wire |-> r, cache |-> cache, pending |-> pending]
  BY <1>1
<1> HIDE DEF s, r
<1>7. s \in Records
  BY <1>2, <1>5, <1>6 DEF Records
<1>8. Unresolved(s)
  BY <1>1, <1>6, SameUnresolved DEF Inv, Good
<1> QED BY <1>4, <1>6, <1>7, <1>8 DEF Good, s, r

(* A frame arrives at an interface that is down.                           *)
LEMMA LoseInv ==
  ASSUME Inv, NEW i \in Ifaces, Lose(i)
  PROVE  Inv'
<1> DEFINE s == [State EXCEPT !.wire[i] = Tail(@)]
<1>1. /\ wire[i] # <<>> /\ Fault("loss")
      /\ wire' = [wire EXCEPT ![i] = Tail(wire[i])]
      /\ UNCHANGED <<cache, pending, up, sockets, packets, arps>>
  BY DEF Lose
<1>2. Good(s) /\ s = [wire |-> [wire EXCEPT ![i] = Tail(wire[i])], cache |-> cache,
                      pending |-> pending]
  BY <1>1, TakenIs
<1> HIDE DEF s
<1>3. State' = s
  BY <1>1, <1>2 DEF State
<1>4. Scalars'
  BY <1>1, FaultIs DEF Inv, Scalars
<1> QED BY <1>2, <1>3, <1>4 DEF Inv

(* A frame arrives.                                                        *)
LEMMA DeliverInv ==
  ASSUME Inv, NEW i \in Ifaces, Deliver(i)
  PROVE  Inv'
<1> DEFINE s == [State EXCEPT !.wire[i] = Tail(@)]
           t == Received(s, i, Head(wire[i]))
<1>1. wire[i] # <<>> /\ Becomes(t) /\ UNCHANGED <<up, sockets, budget>>
  BY DEF Deliver
<1>2. Good(s) /\ Head(wire[i]) \in SentFrame
  BY <1>1, TakenIs
<1> HIDE DEF s
<1>3. Good(t)
  BY <1>2, ReceivedGood
<1> HIDE DEF t
<1>4. State' = t
  BY <1>1, <1>3, BecomesIs DEF Good
<1>5. Scalars'
  BY <1>1 DEF Inv, Scalars, budget
<1> QED BY <1>3, <1>4, <1>5 DEF Inv

(* An ARP event is dispatched.                                             *)
LEMMA ArpEventInv ==
  ASSUME Inv, NEW i \in Ifaces, NEW f \in ArpPackets(i), ArpEvent(i, f)
  PROVE  Inv'
<1> DEFINE t == IF f.type = "REQUEST" THEN ArpRequest(State, i, f) ELSE Learn(State, i, f)
<1>1. f.sender \in Ifaces
  BY Ends DEF ArpPackets
<1>2. Good(t)
  BY <1>1, ArpRequestGood, LearnGood DEF Inv
<1>3. Becomes(t) /\ arps < MaxArps /\ arps' = arps + 1
      /\ UNCHANGED <<up, sockets, packets, faults>>
  BY DEF ArpEvent
<1> HIDE DEF t
<1>4. State' = t
  BY <1>2, <1>3, BecomesIs DEF Good
<1>5. Scalars'
  BY <1>3, SizesAssumption DEF Inv, Scalars
<1> QED BY <1>2, <1>4, <1>5 DEF Inv

(* Empty caches, queues and wires satisfy the invariant.                   *)
LEMMA InitInv ==
  Init => Inv
<1> SUFFICES ASSUME Init PROVE Inv
  OBVIOUS
<1>1. \A S : <<>> \in Seq(S) /\ Len(<<>>) = 0
  OBVIOUS
<1>2. CacheOk(<<>>)
  BY SizesAssumption DEF CacheOk
<1>3. /\ wire \in [Ifaces -> Seq(SentFrame)]
      /\ cache \in [Nodes -> Seq(Learnt)] /\ \A n \in Nodes : CacheOk(cache[n])
      /\ pending \in [Nodes -> Queue]
  BY <1>1, <1>2 DEF Init, Queue
<1>4. /\ State.wire = wire /\ State.cache = cache /\ State.pending = pending
      /\ State = [wire |-> wire, cache |-> cache, pending |-> pending]
  BY DEF State
<1>5. State \in Records
  <2>1. [wire |-> wire, cache |-> cache, pending |-> pending]
          \in [wire: [Ifaces -> Seq(SentFrame)], cache: [Nodes -> Seq(Learnt)],
               pending: [Nodes -> Queue]]
    BY <1>3
  <2> QED BY <1>3, <1>4, <2>1 DEF Records
<1>6. \A n \in Nodes, k \in Slots : State.pending[n][k] = Nothing
  BY <1>4 DEF Init
<1>7. Unresolved(State)
  BY <1>6 DEF Unresolved
<1>8. Scalars
  BY SizesAssumption DEF Init, Scalars
<1> QED BY <1>5, <1>7, <1>8 DEF Inv, Good

(* Every step keeps the invariant.                                         *)
LEMMA NextInv ==
  Inv /\ [Next]_vars => Inv'
<1> SUFFICES ASSUME Inv, [Next]_vars PROVE Inv'
  OBVIOUS
<1>1. ASSUME NEW i \in Senders, NEW dst \in Targets,
             SendVia(i, dst) \/ UdpSend(i, dst) \/ IcmpSendEchoRequest(i, dst)
      PROVE  Inv'
  BY <1>1, SendViaInv, OutputInv DEF UdpSend, IcmpSendEchoRequest
<1>2. ASSUME NEW n \in Nodes, Bind(n) \/ Unbind(n) \/ Cleanup(n)
      PROVE  Inv'
  BY <1>2, BindInv, CleanupInv
<1>3. ASSUME NEW i \in Ifaces, Deliver(i) \/ Lose(i) \/ Flap(i)
      PROVE  Inv'
  BY <1>3, DeliverInv, LoseInv, FlapInv
<1>4. ASSUME NEW i \in Ifaces, NEW f \in ArpPackets(i), ArpEvent(i, f)
      PROVE  Inv'
  BY <1>4, ArpEventInv
<1>5. CASE UNCHANGED vars
  BY <1>5 DEF vars, net, budget, Inv, State, Scalars
<1> QED BY <1>1, <1>2, <1>3, <1>4, <1>5 DEF Next, Application

(* The invariant of forwarding and address resolution holds in every       *)
(* behaviour.                                                              *)
THEOREM Invariance == Spec => []Inv
BY InitInv, NextInv, PTL DEF Spec

(* Every variable keeps its type: cache and queue stay within their bounds *)
(* and a cache never holds two entries for one address (arp_cache.c).      *)
LEMMA InvType ==
  Inv => TypeOK
<1> SUFFICES ASSUME Inv PROVE TypeOK
  OBVIOUS
<1>1. /\ wire \in [Ifaces -> Seq(SentFrame)]
      /\ cache \in [Nodes -> Seq(Learnt)] /\ \A n \in Nodes : CacheOk(cache[n])
      /\ pending \in [Nodes -> Queue]
  <2>1. State.wire = wire /\ State.cache = cache /\ State.pending = pending
    BY DEF State
  <2> QED BY <2>1, Fields DEF Inv, Good
<1> DEFINE E == [ip: Addresses, mac: Ifaces]
<1>2. Learnt \subseteq E /\ SentFrame \subseteq Frame
  BY DEF Learnt, SentFrame
<1> HIDE DEF E
<1>3. cache \in [Nodes -> Seq(E)] /\ wire \in [Ifaces -> Seq(Frame)]
  BY <1>1, <1>2
<1> QED BY <1>1, <1>3 DEF Inv, Scalars, TypeOK, CacheOk, Queue, E

(* No packet waits for an address that its node knows, and cache and queue *)
(* stay in their bounds: arp_request_handler and arp_reply_handler release *)
(* all that waits for what they learn, whatever order their events, ageing *)
(* and a full cache come in.                                               *)
THEOREM NothingStuck == Spec => []PendingInv
<1>1. Inv => PendingInv
  <2>1. Inv => NoPendingResolved
    BY DEF Inv, Good, Unresolved, NoPendingResolved, State
  <2> QED BY <2>1, InvType DEF PendingInv
<1> QED BY <1>1, Invariance, PTL

(* A packet leaves for the station its next hop names, also when it waited *)
(* in the queue of arp_cache.c beside packets for other stations.          *)
THEOREM HopsHonoured == Spec => []HopHonoured
<1>1. Inv => HopHonoured
  <2> SUFFICES ASSUME Inv, NEW i \in Ifaces, NEW k \in 1 .. Len(wire[i]),
                      wire[i][k].type = "IP"
               PROVE  wire[i][k].mac = wire[i][k].hop
    BY DEF HopHonoured
  <2>1. State.wire = wire
    BY DEF State
  <2>2. wire[i] \in Seq(SentFrame)
    BY <2>1, Fields DEF Inv, Good
  <2>3. wire[i][k] \in SentFrame
    BY <2>2
  <2> QED BY <2>3 DEF SentFrame
<1> QED BY <1>1, Invariance, PTL

=============================================================================
