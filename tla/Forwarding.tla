----------------------------- MODULE Forwarding -----------------------------
(***************************************************************************)
(* A packet's way through hosts and routers: ip_output and ip_send, address *)
(* resolution with its cache and its queue of waiting packets, Ethernet and *)
(* the link, router_receive, ip_receive and the answers of ICMP            *)
(* (src/src/protocols/ip.c, arp.c, arp_cache.c, ethernet.c, icmp.c, udp.c, *)
(* src/src/network/router.c, host.c, link.c).                              *)
(*                                                                         *)
(* An interface stands for its IP address and for its MAC address.  Links  *)
(* join two interfaces and stay up; interfaces go down and up.  A frame in *)
(* flight is a scheduled event, and those to one interface arrive in the   *)
(* order sent.  The receive handlers of hosts and routers drop ARP frames; *)
(* the ARP handlers run for the events EVT_ARP_REQUEST and EVT_ARP_REPLY,  *)
(* which only the application schedules.                                   *)
(***************************************************************************)
EXTENDS Naturals, Sequences, FiniteSets

CONSTANTS
  Ifaces,      \* interfaces of hosts and routers
  Peer,        \* the other end of an interface's link
  Node,        \* the host or router an interface belongs to
  Routers,     \* which nodes are routers
  Addresses,   \* IP addresses: the interfaces, and some that nobody has
  OnLink,      \* the addresses in an interface's subnet
  Routes,      \* each router's FIB: what route_table_lookup finds for an address
  Senders,     \* the interfaces whose node's applications send
  Targets,     \* the addresses they send to
  CacheSize,   \* ARP_MAX_CACHE_SIZE
  PendingSize, \* ARP_MAX_PENDING_PACKETS
  InitTtl,     \* IP_DEFAULT_TTL
  MaxPackets,  \* bound: packets sent by applications
  MaxArps,     \* bound: ARP events that the application schedules
  MaxFaults    \* bound: frames lost, changes of an interface's state and calls
               \* of arp_cache_cleanup that remove something

Nodes == {Node[i] : i \in Ifaces}
Slots == 1 .. PendingSize

(* A FIB entry: the egress interface and the next hop, "direct" for 0.     *)
NoRoute == [iface |-> "none"]

ASSUME PeerAssumption ==
  Peer \in [Ifaces -> Ifaces] /\ \A i \in Ifaces : Peer[i] # i /\ Peer[Peer[i]] = i
ASSUME AddressAssumption ==
  /\ Ifaces \subseteq Addresses
  /\ OnLink \in [Ifaces -> SUBSET Addresses]
  /\ \A i \in Ifaces : i \in OnLink[i] /\ OnLink[i] = OnLink[Peer[i]]
ASSUME RoutesAssumption ==
  /\ Routers \subseteq Nodes
  /\ Routes \in [Routers -> [Addresses ->
       [iface: Ifaces, hop: Addresses \cup {"direct"}] \cup {NoRoute}]]
ASSUME SizesAssumption ==
  /\ CacheSize \in Nat \ {0} /\ PendingSize \in Nat \ {0} /\ InitTtl \in Nat \ {0}
  /\ MaxPackets \in Nat /\ MaxArps \in Nat /\ MaxFaults \in Nat
  /\ Senders \subseteq Ifaces /\ Targets \subseteq Addresses

(* An IPv4 packet.                                                         *)
Packet ==
  [src: Ifaces, dst: Addresses, ttl: 0 .. InitTtl,
   kind: {"udp", "echo", "reply", "error"}]

(* An Ethernet frame: hop (history) is the address its MAC was found for.  *)
Frame ==
  [type: {"IP"}, mac: Ifaces, hop: Addresses, pkt: Packet]
    \cup [type: {"REQUEST"}, mac: {"broadcast"}, sender: Ifaces, target: Addresses]
    \cup [type: {"REPLY"}, mac: Ifaces, sender: Ifaces, target: Addresses]

(* An ArpPendingPacket; Nothing is a slot that is not valid.               *)
Waiting == [target: Addresses, iface: Ifaces, pkt: Packet]
Nothing == [target |-> "none"]

VARIABLES
  wire,    \* the frames in flight to each interface, oldest first
  cache,   \* each node's valid ARP entries, least recently stamped first
  pending, \* each node's queue of packets that wait for an address
  up,      \* the interfaces that are up
  sockets, \* the hosts whose UDP port is bound
  packets, \* bounded: packets sent by applications
  arps,    \* bounded: ARP events scheduled
  faults   \* bounded: which faults have happened, in order

net    == <<wire, cache, pending>>
budget == <<packets, arps, faults>>
vars   == <<net, up, sockets, budget>>

TypeOK ==
  /\ wire \in [Ifaces -> Seq(Frame)]
  /\ cache \in [Nodes -> Seq([ip: Addresses, mac: Ifaces])]
  /\ \A n \in Nodes : /\ Len(cache[n]) <= CacheSize
                      /\ \A j, k \in 1 .. Len(cache[n]) :
                           cache[n][j].ip = cache[n][k].ip => j = k
  /\ pending \in [Nodes -> [Slots -> Waiting \cup {Nothing}]]
  /\ up \subseteq Ifaces
  /\ sockets \subseteq Nodes \ Routers
  /\ packets \in 0 .. MaxPackets /\ arps \in 0 .. MaxArps
  /\ faults \in Seq({"loss", "flap", "cleanup"}) /\ Len(faults) <= MaxFaults

(* host_create and router_create with their interfaces added and up.       *)
Init ==
  /\ wire = [i \in Ifaces |-> <<>>]
  /\ cache = [n \in Nodes |-> <<>>]
  /\ pending = [n \in Nodes |-> [k \in Slots |-> Nothing]]
  /\ up = Ifaces
  /\ sockets = {}
  /\ packets = 0 /\ arps = 0 /\ faults = <<>>

-----------------------------------------------------------------------------
(* The operators below stand for functions that are called in the middle   *)
(* of others; they map a record [wire, cache, pending] to the next one.    *)

State == [wire |-> wire, cache |-> cache, pending |-> pending]

Becomes(s) == wire' = s.wire /\ cache' = s.cache /\ pending' = s.pending

(* link_transmit accepts the frame: it looks at the far end only.          *)
CanSend(i) == Peer[i] \in up

(* ethernet_send; the caller of a failed one frees the packet.             *)
EthernetSend(s, i, f) ==
  IF CanSend(i) THEN [s EXCEPT !.wire[Peer[i]] = Append(@, f)] ELSE s

IpFrame(mac, hop, p) == [type |-> "IP", mac |-> mac, hop |-> hop, pkt |-> p]

ArpSendRequest(s, i, target) ==
  EthernetSend(s, i, [type |-> "REQUEST", mac |-> "broadcast", sender |-> i,
                      target |-> target])

ArpSendReply(s, i, req) ==
  EthernetSend(s, i, [type |-> "REPLY", mac |-> req.sender, sender |-> i,
                      target |-> req.sender])

Entries(c) == {c[k] : k \in 1 .. Len(c)}

(* arp_cache_lookup: the MAC of an address, as a set of at most one.       *)
ArpCacheLookup(s, n, ip) == {e.mac : e \in {x \in Entries(s.cache[n]) : x.ip = ip}}

(* The entries of a cache for other addresses, in their order.             *)
Others(c, ip) ==
  LET at == {k \in 1 .. Len(c) : c[k].ip = ip}
      k  == CHOOSE k \in at : TRUE
  IN  IF at = {} THEN c ELSE [j \in 1 .. Len(c) - 1 |-> c[IF j < k THEN j ELSE j + 1]]

(* arp_cache_add: a known address is stamped again, a new one takes a free *)
(* slot, and a full cache forgets it.                                      *)
ArpCacheAdd(s, n, ip, mac) ==
  LET others == Others(s.cache[n], ip)
  IN  IF Len(others) < CacheSize
      THEN [s EXCEPT !.cache[n] = Append(others, [ip |-> ip, mac |-> mac])] ELSE s

FreePending(s, n) == {k \in Slots : s.pending[n][k] = Nothing}

(* arp_pending_enqueue: the first free slot; a full queue refuses and the  *)
(* packet is freed by the caller.                                          *)
ArpPendingEnqueue(s, n, i, target, p) ==
  LET free == FreePending(s, n)
      k    == CHOOSE j \in free : \A l \in free : j <= l
  IN  IF free = {} THEN s
      ELSE [s EXCEPT !.pending[n][k] = [target |-> target, iface |-> i, pkt |-> p]]

(* Mutant: every waiting packet goes to the address that was resolved.     *)
ReleasedAny(s, n, k, ip) == s.pending[n][k] # Nothing

(* The slots that arp_pending_flush takes.                                 *)
Released(s, n, k, ip) ==
  s.pending[n][k] # Nothing /\ s.pending[n][k].target = ip

(* arp_pending_flush: each slot is cleared before its packet is sent, and  *)
(* a packet that cannot be sent is freed.                                  *)
ArpPendingFlush(s, n, ip, mac) ==
  LET slot(t, k) ==
        LET w == t.pending[n][k]
        IN  IF Released(t, n, k, ip)
            THEN EthernetSend([t EXCEPT !.pending[n][k] = Nothing], w.iface,
                              IpFrame(mac, w.target, w.pkt))
            ELSE t
      scan[k \in 0 .. PendingSize] == IF k = 0 THEN s ELSE slot(scan[k - 1], k)
  IN  scan[PendingSize]

(* The second half of ip_output and of router_receive: send to the next    *)
(* hop, or ask for its MAC and let the packet wait.  When the request      *)
(* cannot be sent the packet is freed.                                     *)
SendToHop(s, i, hop, p) ==
  LET n     == Node[i]
      known == ArpCacheLookup(s, n, hop)
  IN  IF known # {}
      THEN EthernetSend(s, i, IpFrame(CHOOSE mac \in known : TRUE, hop, p))
      ELSE IF CanSend(i)
      THEN ArpPendingEnqueue(ArpSendRequest(s, i, hop), n, i, hop, p)
      ELSE s

(* ip_output finds the interface of the source address; it must be up, and *)
(* the destination in its subnet.                                          *)
IpOutput(s, p) ==
  IF p.src \in up /\ p.dst \in OnLink[p.src] THEN SendToHop(s, p.src, p.dst, p) ELSE s

NewPacket(src, dst, kind) == [src |-> src, dst |-> dst, ttl |-> InitTtl, kind |-> kind]

Fault(kind) == Len(faults) < MaxFaults /\ faults' = Append(faults, kind)

-----------------------------------------------------------------------------
(* What applications call.                                                 *)

(* An application has its node send a packet of this kind.                 *)
Output(i, dst, kind) ==
  /\ packets < MaxPackets
  /\ dst \in OnLink[i]
  /\ packets' = packets + 1
  /\ Becomes(IpOutput(State, NewPacket(i, dst, kind)))
  /\ UNCHANGED <<up, sockets, arps, faults>>

(* Both use ip_output, which refuses other subnets.                        *)
UdpSend(i, dst) == Output(i, dst, "udp")
IcmpSendEchoRequest(i, dst) == Output(i, dst, "echo")

(* ip_send of a datagram to any destination by way of the station at the   *)
(* other end.                                                              *)
SendVia(i, dst) ==
  /\ packets < MaxPackets
  /\ packets' = packets + 1
  /\ Becomes(EthernetSend(State, i, IpFrame(Peer[i], Peer[i], NewPacket(i, dst, "udp"))))
  /\ UNCHANGED <<up, sockets, arps, faults>>

(* udp_bind and udp_unbind of the one port.                                *)
Bind(n) ==
  /\ n \notin Routers /\ n \notin sockets
  /\ sockets' = sockets \cup {n}
  /\ UNCHANGED <<net, up, budget>>

Unbind(n) ==
  /\ n \in sockets
  /\ sockets' = sockets \ {n}
  /\ UNCHANGED <<net, up, budget>>

(* arp_cache_cleanup removes the entries of a certain age.                 *)
Cleanup(n) ==
  /\ Fault("cleanup")
  /\ \E k \in 1 .. Len(cache[n]) :
       cache' = [cache EXCEPT ![n] = SubSeq(@, k + 1, Len(@))]
  /\ UNCHANGED <<wire, pending, up, sockets, packets, arps>>

(* interface_set_up.                                                       *)
Flap(i) ==
  /\ Fault("flap")
  /\ up' = IF i \in up THEN up \ {i} ELSE up \cup {i}
  /\ UNCHANGED <<net, sockets, packets, arps>>

-----------------------------------------------------------------------------
(* Reception.                                                              *)

(* icmp_receive: an echo is answered from the address it was sent to.      *)
IcmpReceive(s, p) ==
  IF p.kind = "echo" /\ p.dst \in Ifaces
  THEN IpOutput(s, NewPacket(p.dst, p.src, "reply")) ELSE s

(* icmp_send_error, to the source of a datagram.                           *)
IcmpSendError(s, i, p) == IpOutput(s, NewPacket(i, p.src, "error"))

(* udp_receive: the port is bound, or unreachable.                         *)
UdpReceive(s, i, p) == IF Node[i] \in sockets THEN s ELSE IcmpSendError(s, i, p)

(* ip_receive, which does not compare the destination with the addresses   *)
(* of the node.  Routers have no handler for these protocols.              *)
IpReceive(s, i, p) ==
  CASE p.ttl = 0 \/ Node[i] \in Routers -> s
    [] p.ttl # 0 /\ Node[i] \notin Routers /\ p.kind = "udp" -> UdpReceive(s, i, p)
    [] p.ttl # 0 /\ Node[i] \notin Routers /\ p.kind # "udp" -> IcmpReceive(s, p)

(* Mutant: the hop limit is not decremented.                               *)
ForwardedAlways(p) == p

Forwarded(p) == [p EXCEPT !.ttl = @ - 1]

(* router_receive.  For a packet that expired or has no route it calls     *)
(* icmp_send_error, which takes the 20 bytes before the IP header for that *)
(* header: the error is addressed to four bytes of a MAC address, which    *)
(* ip_output refuses as outside the subnet.                                *)
RouterReceive(s, i, p) ==
  LET n == Node[i]
      r == Routes[n][p.dst]
  IN  IF p.dst \in Ifaces /\ Node[p.dst] = n THEN IpReceive(s, i, p)
      ELSE IF p.ttl <= 1 \/ r = NoRoute THEN s
      ELSE SendToHop(s, r.iface, IF r.hop = "direct" THEN p.dst ELSE r.hop, Forwarded(p))

(* ethernet_receive_event: frames for other MACs are dropped, and the      *)
(* node's receive handler gets the rest.  router_rx_shim drops what is not *)
(* IPv4, and ip_receive rejects an ARP packet, whose first byte is 0, as a *)
(* bad IP header.                                                          *)
Received(s, i, f) ==
  CASE f.mac # i \/ f.type # "IP" -> s
    [] f.mac = i /\ f.type = "IP" ->
         IF Node[i] \in Routers THEN RouterReceive(s, i, f.pkt) ELSE IpReceive(s, i, f.pkt)

Deliver(i) ==
  /\ wire[i] # <<>>
  /\ Becomes(Received([State EXCEPT !.wire[i] = Tail(@)], i, Head(wire[i])))
  /\ UNCHANGED <<up, sockets, budget>>

(* The receiving interface is error-disabled when the frame arrives.       *)
Lose(i) ==
  /\ wire[i] # <<>>
  /\ Fault("loss")
  /\ wire' = [wire EXCEPT ![i] = Tail(@)]
  /\ UNCHANGED <<cache, pending, up, sockets, packets, arps>>

-----------------------------------------------------------------------------
(* The handlers of arp_init, for an event that carries an ARP packet f.    *)

(* Mutant: waiting packets are left to the next lookup.                    *)
LearnOnly(s, i, f) == ArpCacheAdd(s, Node[i], f.sender, f.sender)

(* Both ARP handlers add the sender to the cache and flush what waits.     *)
Learn(s, i, f) ==
  ArpPendingFlush(ArpCacheAdd(s, Node[i], f.sender, f.sender), Node[i],
                  f.sender, f.sender)

(* arp_request_handler.                                                    *)
ArpRequest(s, i, f) == IF f.target = i THEN Learn(ArpSendReply(s, i, f), i, f) ELSE s

(* The ARP packets that the other end of the link sends: its request for i *)
(* or for its own address, and its reply.                                  *)
ArpPackets(i) ==
  [type: {"REQUEST"}, sender: {Peer[i]}, target: {i, Peer[i]}]
    \cup [type: {"REPLY"}, sender: {Peer[i]}, target: {i}]

(* An event that the application scheduled for interface i is dispatched.  *)
ArpEvent(i, f) ==
  /\ arps < MaxArps
  /\ arps' = arps + 1
  /\ Becomes(IF f.type = "REQUEST" THEN ArpRequest(State, i, f) ELSE Learn(State, i, f))
  /\ UNCHANGED <<up, sockets, packets, faults>>

-----------------------------------------------------------------------------

Application ==
  \/ \E i \in Senders, dst \in Targets :
       SendVia(i, dst) \/ UdpSend(i, dst) \/ IcmpSendEchoRequest(i, dst)
  \/ \E n \in Nodes : Bind(n) \/ Unbind(n) \/ Cleanup(n)

Next ==
  \/ Application
  \/ \E i \in Ifaces : Deliver(i) \/ Lose(i) \/ Flap(i)
  \/ \E i \in Ifaces : \E f \in ArpPackets(i) : ArpEvent(i, f)

(* The scheduler keeps dispatching the frames in flight.                   *)
Spec == Init /\ [][Next]_vars /\ WF_vars(\E i \in Ifaces : Deliver(i))

-----------------------------------------------------------------------------
(* Properties.                                                             *)

(* No packet waits for an address that its node knows: whenever the ARP    *)
(* handlers are called, also when a full cache forgets what they learn,    *)
(* learning an address releases all that waits for it, on every interface  *)
(* of the node.                                                            *)
NoPendingResolved ==
  \A n \in Nodes, k \in Slots :
    pending[n][k] # Nothing => ArpCacheLookup(State, n, pending[n][k].target) = {}

(* The cache and the queue of a node fit together and stay in their bounds. *)
PendingInv == TypeOK /\ NoPendingResolved

(* A packet leaves for the station its next hop names, also when it waited *)
(* in the queue beside packets for other stations.                         *)
HopHonoured ==
  \A i \in Ifaces : \A k \in 1 .. Len(wire[i]) :
    wire[i][k].type = "IP" => wire[i][k].mac = wire[i][k].hop

(* Every node falls silent once the applications do: no packet goes round  *)
(* for ever, although the routes have a loop, and no answer is answered    *)
(* without end.                                                            *)
Drains == <>[](\A i \in Ifaces : wire[i] = <<>>)

(* arp.c:29-33: link_transmit turns the broadcast request into the event   *)
(* EVT_ARP_REQUEST at the other end, whose handler replies.  So a packet   *)
(* that waits for an existing neighbour is on its way out of the queue:    *)
(* the request or its reply is in flight, unless a frame was lost or an    *)
(* interface changed its state.                                            *)
AnswerUnderWay ==
  Entries(faults) \subseteq {"cleanup"} =>
    \A i \in Ifaces, k \in Slots :
      LET w == pending[Node[i]][k]
      IN  w # Nothing /\ w.iface = i /\ w.target = Peer[i] =>
            \/ \E f \in Entries(wire[Peer[i]]) : f.type = "REQUEST" /\ f.target = Peer[i]
            \/ \E f \in Entries(wire[i]) : f.type = "REPLY" /\ f.sender = Peer[i]

=============================================================================
