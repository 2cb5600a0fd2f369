# FrameRunner in TLA+

FrameRunner is a discrete-event network simulator in C: an engine with a sorted
event queue, network devices joined by links, and a protocol stack (Ethernet,
ARP, IPv4, ICMP, UDP, TCP) with routing (route table, static routes, RIP, OSPF).
This directory models its core in TLA+, checks the models with TLC, and proves
the safety properties of every component with TLAPS. Paths below are relative to the repository.

The program has one thread. What makes it hard is not parallelism but
callbacks and simulated time: handlers run in the middle of a scheduler step
and call back into the engine; timers are never cancelled and fire for whatever
their slot holds by then; packets arrive late, or not at all, because an
interface or a link is disabled; tables are fixed arrays that fill up; and
almost every operation has an error path that runs when a later step fails.

## 1. Inventory

| Component | State | Operations | Interacts with | What is hard |
|---|---|---|---|---|
| event queue, `engine/event.c` | sorted array, count, capacity | create, push, pop, free | owned by the scheduler | order among equal timestamps, growth at the limit, failed `realloc` |
| scheduler, `engine/scheduler.c` | queue, `now`, `running`, handler table | schedule, register, step, run, stop, free | calls handlers of every protocol | handlers re-enter it; events in the past |
| simulator, `engine/simulator.c` | scheduler, topology, `end_time` | run, step, stop, set end time, inject, free | called by the application | stop and end time against the loop; wrap of `now + delay` |
| packet, `network/packet.c` | buffer with a view | create, clone, prepend, strip, free | every protocol | bounds of the view, who frees it |
| interface and link, `network/interface.c`, `link.c` | `up`, counters, rx handler; two ends, delay | set up, attach, transmit | schedules `EVT_PACKET_RECEIVE` | down at sending, down at arrival |
| Ethernet, `protocols/ethernet.c` | none | send, receive | link below, ARP/IP/switch above | filtering, ownership of frames |
| MAC table and switch, `network/mac_table.c`, `switch.c` | MAC table, ports | learn, look up, age, flush, receive, port down | Ethernet, scheduler | stale entries, moved stations, full table |
| ARP, `protocols/arp.c`, `arp_cache.c` | cache, pending packets | request, receive, add, look up, enqueue, flush, clean up | Ethernet, IPv4 | bounded queue, answer racing the clean-up |
| IPv4, `protocols/ip.c` | protocol handlers | send, output, receive | ARP, UDP, TCP, ICMP, router | error paths of a chain of calls |
| router and host, `network/router.c`, `host.c` | interfaces, route table | receive, forward, add and delete routes | IPv4, ARP, ICMP | TTL, the route's interface being down |
| route table, `routing/route_table.c` | RIB, FIB, sequence | add, delete, flush a protocol, look up | static routes, RIP, OSPF | FIB rebuilt after each change, full RIB |
| static routes, `routing/static_route.c` | configured records | add, delete, apply, flush | route table | two tables that must agree |
| RIP, `protocols/rip.c` | learned entries, interfaces | receive, update, time out, collect | UDP, route table, scheduler | timers of refreshed routes, metrics at 16 |
| OSPF, `protocols/ospf.c` | neighbours, LSDB, SPF state | hello, receive, flood, SPF, dead timer | IPv4, route table, scheduler | old LSAs, partial adjacency |
| UDP, ICMP, `protocols/udp.c`, `icmp.c` | port table; none | bind, send, receive; reply | IPv4 | small |
| TCP, `protocols/tcp.c` | table of TCBs, each with a send queue | listen, connect, send, close, receive, two timers | IPv4, scheduler | loss, early and late timers, slots reused, sends that fail half-way |
| topology, device, trace, helpers | ownership lists; text log | set-up; append | all | nothing over time |
| command line, display | (files are empty) | | | |

What makes each part correct, and where it is stated:

* engine: events are dispatched by timestamp and in order of scheduling, each at
  most once and on time, none is lost, stop and end time end the
  run, and every run returns (`Engine`);
* TCP: a byte stream in order and without gaps, a send queue that holds exactly
  what is unacknowledged, sequence spaces of two ends that agree, one TCB per
  four-tuple, progress in spite of loss, release of every TCB (`Tcp`);
* routes: every lookup finds the best route of the longest prefix, one candidate
  per key, configuration and table agree (`Routing`);
* ARP, IPv4, routers: a packet waits only while its next hop is unknown, leaves for
  that next hop, and no packet travels for ever (`Forwarding`);
* RIP: database and routes agree, routes converge, age in time and disappear (`Rip`);
* switch: one entry per address and none behind a port that is down, silent stations are
  forgotten, a broadcast or multicast reaches every station once, floods end (`Switch`);
* OSPF: neighbours find each other and their silence is noticed, databases agree on the
  newest version of what was flooded, routes are shortest paths of the database by
  neighbours that are alive, and routes over a dead link go (`Ospf`).

The hazards, each at its line and with the properties that cover it, are in
`PROJECT.json`.

## 2. Modules

| Module | Models | Uses |
|---|---|---|
| `EventQueue` | insertion and growth of the array in `event.c`, as operators on sequences | |
| `Engine` | `event.c`, `scheduler.c`, `simulator.c` as a state machine | `EventQueue`; refines `EventOrder` |
| `EventOrder` | what the engine promises: a set of pending events, the least fires | |
| `EngineProofs` | theorems about `Engine` | `Engine`, TLAPS |
| `Tcp` | `tcp.c` on two hosts and one link | |
| `TcpProofs` | theorems about `Tcp` | `Tcp`, `InductionLemmas` |
| `RouteTable` | `route_table.c` as operators on a record | |
| `Routing` | the routes of one router: `route_table.c` and `static_route.c` as a state machine | `RouteTable` |
| `MCRouting` | the prefixes of the instance | `Routing` |
| `RoutingProofs` | theorems about `Routing` and the operators of `RouteTable` | `Routing`, `InductionLemmas` |
| `Forwarding` | packets through hosts and routers: `ip.c`, `arp.c`, `arp_cache.c`, `ethernet.c`, `icmp.c`, `udp.c`, `router.c`, `host.c`, `link.c` | |
| `MCForwarding` | the topology of the instance | `Forwarding` |
| `ForwardingProofs` | theorems about `Forwarding` | `Forwarding`, `InductionLemmas` |
| `Rip` | `rip.c` on several routers, with time | |
| `MCRip` | two topologies | `Rip` |
| `RipProofs` | theorems about `Rip` | `Rip`, `InductionLemmas` |
| `Spf` | the shortest-path loop of `ospf.c` as operators on a graph, and shortest paths by definition | |
| `Ospf` | `ospf.c` on several routers, with time | `Spf` |
| `MCOspf` | a triangle of routers and their LSAs | `Ospf` |
| `OspfProofs` | theorems about `Spf` and `Ospf` | `Ospf`, `InductionLemmas` |
| `Switch` | `switch.c` and `mac_table.c`: several switches and stations, with time | |
| `MCSwitch` | two switches and three stations | `Switch` |
| `SwitchProofs` | theorems about `Switch` | `Switch`, `InductionLemmas` |
| `InductionLemmas` | least elements, induction over the turns of a loop | TLAPS |

### Engine

`queue` is the first `count` entries of the array, `capacity` what is allocated.
`EventQueuePush` has the two outcomes of `event_queue_push`: inserted (growing a
full array), or refused when the array is full and `realloc` fails; the caller
then frees the event (`Schedule`), or drops its only pointer
(`simulator_inject_packet`, `Inject`). `scheduler_step` is split where it calls
the handler: `Pop`, then any number of the operations a handler may call
(`Schedule`, `Inject`, `Register`, `Stop`, `SetEndTime`), then `Return`, which
includes the test of the loop that called it (`LoopEnds`). `Enter` starts
`simulator_step`, `scheduler_run` or `simulator_run`; `Exhausted` is a step on an
empty queue; `Free` is `simulator_free`. Timestamps wrap at `TimeMod`.
`fate`, `nextId`, `stepped`, `stopAsked` and the fields `id` and `born` are
history. Re-entrant stepping from a handler is left out, because no handler in the
repository does it.

### Tcp

A host's `TcpTable` is a function from slots to TCBs; a slot that is not valid
has the state `FREE`. `tcp_receive` has one action per branch; each consumes the
oldest segment in flight, and takes the branch's error path when the answer cannot be
sent because the link is down. Two kinds of failure are kept apart, as in the
code: while the link is down, `ip_output` fails at the sender, and a segment that
arrives at a disabled interface is dropped without anybody noticing (`Lose`).
Segments to one host keep their order: `ip_output` reaches only the subnet of the
interface, the link's delay is fixed, and the engine is first-in first-out (a
theorem of `EngineProofs`). Timers may expire at any moment after they were
scheduled, as they do for suitable delays; `rtx` and `tw` count the pending
ones, since they are never cancelled and belong to a slot, not to a connection.
The application is taken to have registered `tcp_retransmit_handler`.
ARP is taken as resolved. Bytes are numbered by their sequence number, so what
has been delivered (`got`) is compared with what was sent.

### Forwarding

An interface stands for its IP and MAC address; `wire` holds the frames in flight
to each, `cache` and `pending` the ARP cache and queue of each node (a router's
interfaces share one), `sockets` the hosts whose UDP port is bound. Functions that
others call in their middle (`EthernetSend`, `ArpPendingFlush`, `SendToHop`,
`IpOutput`, ...) are operators from a record of `wire`, `cache` and `pending` to the
next one, so that `Deliver` is the whole of `ethernet_receive_event`: filtering,
the receive handler, the protocol above it, its answer, and the request or
the queueing that the answer leads to. The code asks only whether the *far* end of the
link is up (`link_transmit`); `ip_output` also asks for the near end, a router does
not. `hop` in a frame is history: the address whose MAC the frame carries.
A frame that arrives goes to the receive handler of the node, which drops ARP frames; the ARP
handlers run for the events `EVT_ARP_REQUEST` and `EVT_ARP_REPLY`, which nothing under `src/`
schedules. `ArpEvent` is such an event, scheduled by the application at any moment for what the
other end of a link would ask or answer, so that caches fill and queues empty. Routes are a constant here; their changes are the subject of
`Routing`. The instance has host A, routers R1 and R2, a network `x` that the
routers send to each other, and an address `g` that nobody has and that R2 has no route to.

### Rip

Time advances by `Tick` once nothing is due; timers count down and `last_update` is kept
as an age, so the state space is finite without a bound on time. Within
one step events come in any order, which includes the engine's. Routers may start at
different times; one whose `udp_bind` fails has not started, since `rip_init` then returns without
timers. Networks of a router's own are never announced by `rip_send_update`,
so an external speaker supplies the routes. Updates are taken to arrive: in
`src/`, `router_receive` delivers 224.0.0.5 and 224.0.0.6 locally and not RIP's
224.0.0.9 (`router.c:24`), so the application has to bind an `IpStack` to
the interface. Prefixes meet only in a full database, so one prefix is enough for the
other properties.

### Ospf

`nbr`, `lsdb` and `routes` are each router's neighbour table, database and routes of
protocol OSPF; `spf` counts its pending SPF events, since every change schedules one of its own.
No code creates LSAs, so an external speaker sends them to the interface `Origin`. An
LSA is its key and sequence number; `Edges` says which links a version lists, so a
database is also the graph that `Dijkstra` runs on. A step of time is one Hello interval, and
`last_hello_ts` is an age. Links are fast: packets are handled before
timers that are due later, and timers before the SPF that waits half a second.
Hello timers of one instant fire in the order they were scheduled in, which the
engine keeps; frames on different links and dead scans come in any order. `ReceiveHello` and `ReceiveLsu` are the
branches of `ospf_receive` with all they change: `ReceiveLsu` stores the LSAs one by one
(`Applied`), floods each changed entry until an interface cannot send (`FloodedOut`) and
schedules SPF. `SpfTimer` replaces all routes. What `Dijkstra` finds is
tabulated for each database content (`Found`), and what is right likewise
(`Best`). `Lose` is a frame dropped at an interface that is `IFACE_ERR_DISABLED`, `Flap`
is `interface_set_up`. `missed` is history: where an LSA was left out or a frame lost.
Two routers share one link at most, and the RIB has room.

### Switch

`entries` and `count` are each switch's MAC table, with `timestamp` as an age. `Enter` is
`switch_receive` called for a frame at an edge port, as the tests call it, so that
a frame may carry a station's address as its source. From there frames travel as
`ethernet.c` and `link.c` carry them: `ethernet_send` writes the MAC of the
port it sends by into the source, so the next switch learns that port, and an
interface passes on arrival only what is addressed to it, to all, or (in a frame of type IPv4) to
an IPv4 multicast group (`ToAll`). `SwitchReceive` is the
whole function: the port's state, learning (or dropping, when the table is full), and
then flooding or one port. `PortDown` flushes the addresses of the port; frames in flight to
it stay in flight. `entered`, `got` and `lost` are history.

### Routing

Operators of `RouteTable` carry the whole of each function, the trailing rebuild
of the FIB included; `Routing` makes them the steps of the routing protocols
(`Learn`, `Withdraw`, `FlushProto`) and of the static configuration. The array
scans are recursive functions over slots. `route_table_add` rolls back when the
rebuild fails; the FIB is as large as the RIB, so it cannot fail, and the
roll-back is left out.

## 3. Runs

Passing runs:

| Run | Instance | States | Shows |
|---|---|---|---|
| `engine` | 3 events, times 0..2, capacity 1 at first | 121 000 | order, conservation, punctuality, stop and end time, return of the run loops, refinement of `EventOrder` |
| `tcp_faults` | both ends write two bytes and close; 2 link changes, 1 loss | 1 152 000 | the send queue holds exactly what is unacknowledged, the two ends' sequence numbers agree, nothing is delivered twice or out of order |
| `tcp_connections` | 2 connections, 2 ports, 2 slots, 1 loss | 353 000 | stream intact, four-tuples unique, TIME_WAIT timed, no end alone |
| `tcp_live` | 1 connection, 2 bytes, 2 losses | 3 000 | lost data and ACKs are repaired; without loss the handshake and an orderly close complete |
| `routing` | 3 protocols, 3 nested prefixes, RIB of 3, 2 static records | 369 000 | lookups, keys, flags, static configuration |
| `forwarding` | host and 2 routers, cache of 1, queue of 2, TTL 3, 2 packets, 2 ARP events, 1 fault | 267 000 | nothing waits for a known station, packets leave for the station of their next hop, traffic dies out |
| `ospf` | 3 routers in a triangle, 3 keys of 2 versions, LSDB of 2, 2 updates, 1 fault | 165 000 | silence noticed in two intervals, databases agree where nothing was lost, routes along shortest paths by living neighbours and none left out, bounded SPF events, adjacency returns, routes over dead links go |
| `switch` | 2 switches, 3 stations, table of 2, 3 frames, a station that moves, 1 port taken down | 564 000 | no entry behind a port that is down, one entry per address, bounded age, every station gets a broadcast or multicast once, tables empty again |
| `rip` | 2 routers and a speaker, 1 prefix, 1 fault | 162 000 | database and routes agree, bounded age, no mutual routes, convergence, collection |

Invariants that belong together are checked as one: `TcbInv`, `RibInv`, `PendingInv`, `DatabaseInv`,
`NeighborInv` and `TableInv` are each the module's `TypeOK` with what must hold of one table,
and the start of an inductive invariant; `SlotsOwned`, `StaticAgrees` and
`BroadcastOnce` join the two halves of one claim. The engine's `TypeOK` and `QueueFits` are proved
and need no run.

Runs that TLC must refute, each a disagreement of the code with a comment or with
a document (`documentation/specifications/18_tcp.md`, `23_rip.md`):

| Run | Property | What the code does |
|---|---|---|
| `tcp_control_lost` | `ControlRepaired` | the SYN-ACK is queued but no timer is scheduled for it, so one lost segment leaves the child in SYN_RECEIVED; TIME_WAIT does not answer a repeated FIN, so the loss of the last ACK leaves the peer in LAST_ACK |
| `tcp_stream_flap` | `StreamIntact` | `rcv_nxt` moves before the ACK is sent, and the data is freed when the send fails |
| `rip_twin` | `Collected` | between two routers joined by two links, announcements of metric 16 renew the age of each other's entry, which is never collected |

**Bounds.** Three events suffice for each order of two events around a third that
a handler schedules; capacity 1 makes the array grow twice and gives a failed
`realloc` at each size; three clock values give past, present, future and a wrap.
TCP needs two slots for a listener and its child and two connections for a
slot to be reused while timers of its first owner are pending; two bytes each way, so that a byte
may arrive again after the next one; `MaxFlight` keeps
early retransmissions finite and still lets a copy be in flight with its original
and an ACK. `SeqMod` is above what the runs send, except where noted in section
6. A RIB of three slots is full with two static routes and one learned one, two
protocols of equal distance exercise the tie-break, and the prefixes nest three
deep; one is written with a host bit set. In `forwarding` a cache of one entry
is full after one answer, a queue of two holds packets for two stations at once (what a full one
refuses is left to the proofs, which hold for every size), TTL 3 lets a packet
go round once, and two ARP events suffice for two routers to learn each other, so that it does. In `rip` the periods 1, 2 and 1 keep the order update, collection, timeout of the code's
30, 120 and 180 seconds, and infinity 5 is above every metric of the topology.
In `ospf` two LSUs of two LSAs each overlap on a cycle, so that an old version meets a newer one
by another path, and their three keys compete for two entries; the cheapest path from 1 to
2 leads by 3; one link has two masks, so its ends never become neighbours. Faults befall the
interfaces of routers 2 and 3 (`Fragile`), which includes one end of every link. A dead
interval of two Hello intervals, four in the code, leaves room for one lost Hello that is noticed
by nobody and two that are. In `switch` a table of two is full with three addresses;
the frames of `Traffic` are broadcasts from every side, a station that appears at another
port, and an answer to it; one end of the trunk and one edge port may be taken down and come back
as often as the bound allows.

**Fairness.** `Engine`: weak fairness of `Dispatch`, since the thread that entered a run
keeps running and handlers return. The run loops return for a further reason: a
behaviour creates at most `MaxEvents` events; a simulation whose handlers
schedule for ever does not return, and is not meant to. `Tcp`: weak fairness of
`Receive` and `TimeWaitExpires`, since the scheduler dispatches each event it
holds (the engine's theorems and `RunReturns`); strong fairness of `Retransmit`, only because
the bound `MaxFlight` disables a pending timer for a while. `ClosingSpec` adds
that an application closes a connection its peer has closed; nothing else is assumed
of applications. `Forwarding`: weak fairness of the delivery of some frame, and
`Rip`: weak fairness of each delivery, each router's due events and `Tick`, for the same reason.
`Ospf` and `Switch`: weak fairness of `Step`, the disjunction of all events the scheduler may
dispatch next and the passage of time. No single event is promised anything; each
comes to its turn because time passes only when nothing is due.

`CHECK_DEADLOCK FALSE` is given for the engine, for TCP and for forwarding: a freed simulator
and a network without traffic may stop. Routing, RIP, OSPF and the switches never stop: their
timers fire for ever.

## 4. Proofs

Every safety property that a passing run checks is also a theorem: it holds for every value of
the constants that satisfies the named assumptions of the modules (and, where stated below, a
hypothesis of the theorem), not only for the instance of section 3. The theorems are listed in
`PROJECT.json`. All have the same shape: an inductive invariant, shown of the initial
states and of every action in turn, implies the property. The state invariants
were checked with TLC before they were proved.

**Loops.** Much of the code is loops over fixed arrays. The models write them as recursive
functions of the number of turns done, and `InductionLemmas` has the induction for
them: `LoopInvariant` and `UpTo` take a property of the loop's state as the *set* of
states that have it, because the provers cannot instantiate a theorem that
takes an operator. A lemma per loop says what one turn does, and one that it holds after the last.
Some definitions of the models were given a shape that this needs, with the same meaning:
`EntriesOf` of `Rip`, `BlockSize` of `RouteTable`, `FloodedOut` and `CalculationsBounded` of
`Ospf`, `Others` of `Forwarding` and `Costs` of `Spf`.

### Engine

The theorems of `EngineProofs` hold for every set of event types, clock width, initial
capacity and number of events (the four assumptions of `Engine`):

* the invariants `TypeOK`, `QueueSorted`, `QueueFits`, `EventsConserved`, `OnTime`;
* the action properties `StopHonoured`, `EndTimeHonoured`;
* `Refinement`: `Spec => RefinesEventOrder`.

The inductive invariant `Inv` is the conjunction of these invariants with two
parts that make it inductive. `QueuePunctual` says of queued events what
`OnTime` says of the one being dispatched: an event that was not in the past
when it was created is not in the past now; `Pop` needs it. `ControlMatches` ties
`cur`, `at` and `loop` together: an event is in hand exactly between `Pop` and
`Return`. `EventsConserved` needs its first conjunct (no two entries with one
id), and the order of `QueueSorted` is by `id`, because every `sequence` is 0:
what has to be shown of the insertion is that the newest event goes behind
all entries with its timestamp. The lemmas on `InsertionIndex` and `Insert`
establish that the shift loop ends at exactly one place, that
`Insert` keeps the order and adds one entry, and what `Tail` leaves.
The action properties need `RunInv` in addition: a loop that is active after
a step has not been stopped and has not reached its end time. The refinement maps
the array to the set of its (id, timestamp) pairs; `Pop` is `Fire` because the
first entry of a strictly sorted array precedes all others.

### TCP

`TcpProofs`, for every number of slots, ports, connections, bytes, losses and segments in
flight. `NoWrap` (`MaxBytes + 2 < SeqMod`) says that the bytes of an application, a SYN and a
FIN fit in the sequence space; the code compares sequence numbers as plain numbers, so this is
where it works (section 6). It holds of the constants of all passing runs.

| Theorem | Property | Hypotheses |
|---|---|---|
| `SlotsKept` | `SlotsOwned` | |
| `QueuesExact`, `SpacesAgree`, `DeliveryOrdered` | `TcbInv`, `SeqSpaceAgrees`, `OrderedDelivery` | `NoWrap` |
| `StreamKept`, `NoEndAlone` | `StreamIntact`, `NoHalfOpen` | `NoWrap`, `MaxFlaps = 0` |

`MaxFlaps = 0` is a link that stays up while segments may still be lost: with a link that
changes the last two are false of the code. The run `tcp_stream_flap` shows it
for one of them; for `NoHalfOpen`, TLC finds it with `MaxFlaps = 2` in `TcpConnections.cfg` (an
answer that cannot be sent leaves the client in FIN_WAIT_1 with the server's TCB freed).

None of the properties is inductive, because an old segment or an old TCB of the same port may
meet a new connection. `PortOk` is the invariant of one port. It relates four sets: the client's
and the server's TCBs for the port, of which there is at most one each, and the
segments in flight each way. It says how far each segment's numbers may lie from
those of its receiver, which combinations of states the two TCBs and the segments of a
connection can be in, and that segments of an earlier connection are older than those of a
later one. A step moves one of the four sets, so that `PortOk` is proved once for each
kind of move (a TCB opens, sends, is acknowledged, takes data or a FIN, is released; a segment is lost), and
`HostPort` gives the same statement from the other host's side. Around it, `Numbers` says that a
connection keeps its port, `Ordered` that connections follow each other in a queue, `Bounded`
that nothing beyond the bytes written is numbered, and `Delivered` that what was delivered
lies behind `rcv_nxt`. `StreamKept` adds `Counted` (an established TCB has delivered all it
acknowledged) and `NoEndAlone` adds `Fins` (a FIN is taken exactly by who has
received all that its sender sent).

### Routing

`RoutingProofs`, for every address width, RIB and configuration size, set of
destinations, protocols and metrics: `TableConsistent` (`RibInv`), `LookupsBest`
(`LookupIsBest`), `StaticsAgree` (`StaticAgrees`). The argument is the loop of the rebuild:
after `n` turns the FIB *covers* the first `n` slots (`Covers`), that is, has one
entry for each of their prefixes, which is the preferred candidate. The preference is a strict order only
because no two candidates have one sequence number, so `SeqsDistinct` and a bound on
the numbers given out are part of the invariant. `LookupSound` shows the scan of the lookup
against the definition of the longest match. For the static configuration,
`Orphanless` says that no STATIC route lacks its record, and `AllInTable` that every
record has its route as long as none was flushed or refused.

### Forwarding

`ForwardingProofs`, for every arrangement of nodes and links, all routes (loops among
them) and sizes: `NothingStuck` (`PendingInv`), `HopsHonoured` (`HopHonoured`). The functions of
the code call each other in their middle, so the
invariant is stated of the record that they pass on: `Good(s)` says that frames, cache and
queue are of the right kind, that packets are addressed to their next hop, and that nobody waits
for a known address. Every operator keeps it, so that the proof of `Deliver` follows the calls of
the code. `NothingStuck` is not trivial because a full cache forgets what it is told, and because
the flush goes through slots of all interfaces of the node while it sends.

### Switch

`SwitchProofs`, for every network of switches and stations, table size and both periods:
`TablesSound` (`TableInv`), `AgesBounded` (`AgeBounded`), `BroadcastsOnce` (`BroadcastOnce`).
The tables need `OwnPorts` (a switch learns only its own ports, so that a port's going down
concerns one table) and `AgedInTime` (age and the time to the next ageing together are bounded).
`BroadcastsOnce` has the hypothesis that the links form a tree (`TreeOf(side)`, where `side[i]`
are the stations that a frame may still reach when it arrives at interface `i`); TLC finds it true of the
two switches of the run. On a cycle floods go round, as the documentation says. The
invariant says that copies of one frame are bound for disjoint sets of stations, none of which has it,
and that together they cover every station that is left, also in the middle of a flood.

### RIP

`RipProofs`, for every network of routers, database size and all periods with the collection
no longer than the timeout: `DatabaseSound` (`DatabaseInv`), `EntriesExpire`
(`NothingLingers`), `SplitHorizon` (`NoMutualRoutes`). `Good` of a router's database, count
and routes says that they agree and that age plus the time to the next scan is bounded, and is
kept by each turn of the loops over entries. `SplitHorizon` is for a tree of
routers (`TreeOf(uplink)`: of the two ends of each link exactly one leads to the
speaker); the invariant is that updates travel and entries are learned only away from
the speaker. It is true of the run's row of routers. On a cycle two routers may come to route
to each other.

### OSPF

`OspfProofs`, for every topology, all masks, sizes, dead intervals, updates and faults:
`NeighborsSound` (`NeighborInv`), `FloodsReach` (`FloodReaches`), `FloodsEnd`
(`CalculationsBounded`), `RoutesRight` (`RoutesShortest`) and `RoutesLeaveOutNone` (`RoutesComplete`).
The invariant has a part for each. `Punctual`: age plus time to the next scan. `Pending`: an SPF event
for a change is paid for by a version that the database has gained, so floods
end although routers form cycles. `HeldBySender` (whoever sent an LSA has it, or newer) and
`LinksReach`: `FloodReaches` by itself does not survive an LSU that arrives on the link over which it
is also being sent. `Named`: Hellos and neighbours name the router at the other end of the link.

`RoutesRight` contains the correctness of `ospf_run_spf`, for every graph (`DijkstraRight`): it finds a
path of every destination in reach, with its cost and its second router, none
is shorter, and what it does not find costs `OSPF_INFINITY` or more. The invariant of the loop
(`SpfInv`) says that every distance is that of a path over visited vertices (`Reached`), that no path to
a visited vertex is shorter (`Minimal`), and that the edges out of visited vertices have been taken into account
(`Considered`). That a turn keeps it rests on `LeavingCosts`: a path that leaves the visited
vertices costs at least as much as the nearest of the others is away. After as many turns as there are
vertices nothing is in reach unvisited. Between calculations the routes stay right because a changed
database and a neighbour marked DOWN both schedule one. `RoutesLeaveOutNone` has the
hypothesis `Affordable`, that no path costs `OSPF_INFINITY`: a metric has 16 bits and a path at most 1281
vertices, so this is so in the code.

### Only model-checked

Liveness is beyond the prover: `RunReturns`, all of `tcp_live` (`DataAcknowledged`,
`HandshakeCompletes`, `CloseCompletes`), `Drains`, `Converges`, `Collected`, `Settles` and
`Forgotten`. So are the runs that TLC refutes.

## 5. Plan

1. Done: engine; TCP; route table and static routes; forwarding with
   ARP, IPv4, ICMP, UDP, hosts and routers; RIP; OSPF with SPF; switches. Each
   with the proofs of its safety properties.
2. `Packet`: prepend and strip stay in the buffer; a full UDP socket table and a full RIP database.
3. Composition of `Forwarding` with `RouteTable`, so that routes change while packets wait.
4. Proofs: the safety half of what is only model-checked, such as a measure that
   every delivery of `Forwarding` lowers (`Drains`) and the step of each packet past a router.

## 6. Not modelled, and observations

Not modelled at present: the components of section 5 that are to come;
formatting, traces, topology set-up, byte-order helpers; the empty command line and
display; headers, checksums and their rejections. `TCP_CLOSING` is absent from
`Tcp` because no statement enters it, and `Link.loss_rate` because no code reads it.

Two claims are definitions of the modules and no run's property. TLC refutes each in a few states:

* `AnswerUnderWay` of `Forwarding`: `arp.c:29-33` says that an ARP request comes to
  `arp_request_handler` by way of `link_transmit`. `link.c:85` schedules `EVT_PACKET_RECEIVE` for every
  frame, on arrival `router_rx_shim` (`router.c:49`) drops what is not IPv4 and `ip_receive`
  (`ip.c:139`) rejects it as a bad header, and the handler waits for `EVT_ARP_REQUEST`. So the request
  is consumed unanswered, and a packet waits with nothing in flight although no frame was lost
  (`Forwarding.cfg` with `INVARIANT AnswerUnderWay`: send, deliver);
* `ConnectHandlerCalled` of `Tcp`: `18_tcp.md:353` says that `TcpConnectHandler` is called when a TCB
  becomes established. When the final ACK of the handshake cannot be sent, the client is established
  and the handler is not called (`tcp.c:605`; `TcpConnections.cfg` with `MaxFlaps = 1` and
  `INVARIANT ConnectHandlerCalled`: the link goes down while the SYN-ACK is in flight).

Seen while modelling besides:

* the contract of `scheduler_step` (`engine/scheduler.h:88`,
  `engine/simulator.h:58`) says that the queue shrinks by one; it does not when the handler schedules;
* `02_event.md:109` speaks of a non-zero sequence; `event_create` always stores 0
  (`event.c:23`), and order among equal timestamps rests on the insertion loop;
* data that crosses the peer's FIN is never acknowledged, since CLOSE_WAIT has no branch in
  `tcp_receive` (`tcp.c:918`), and `tcp_close` then refuses because of it;
* sequence numbers are compared without wrap-around (`tcp.c:119`, `660`): with
  `SeqMod = 4`, `DataAcknowledged` fails at the segment that crosses zero;
* simultaneous close is documented as not implemented; `CloseCompletes` has one closer;
* a route updated in place keeps its sequence number, so it may win a tie over a
  candidate that has not changed;
* the first retransmission event of a segment has no handler (`tcp.c:456`) and nothing under `src/`
  registers one for its type, so there a lost SYN is never repeated, against `18_tcp.md:23`;
* a router's ICMP errors never arrive: `icmp_send_error` takes the 20 bytes before `data`
  for the IP header (`icmp.c:19`), and `router_receive` calls it with `data` at the
  IP header, so the destination is a part of the frame's source MAC
  (`21_router.md:148` says the error goes back to the original source);
* `ip_receive` accepts packets for any destination, and pending slots are reused
  lowest first, so packets to one station may leave in another order than they came;
* `rip_send_update` announces the next hop of its own entry, and `rip_receive` keeps a next hop
  that is not 0 (as `23_rip.md:780` and test 26 there ask), so two hops away a route names
  a station that is not on the router's link;
* `rip_receive` compares neither metrics nor senders, so on a cycle of routers a longer path
  replaces a shorter one and routes go round while the speaker is alive;
* `link_transmit` sends a clone and nobody frees the original after a successful send
  (`ethernet.c:81`), so every frame sent is leaked; memory is not modelled.
* `rip_init` returns before it schedules the timers when `udp_bind` fails (`rip.c:47`), where
  `23_rip.md:506` says "If UDP bind fails, keep the already-initialized state and continue";
* `ospf_flood_lsa` ends at the first interface that cannot send (`ospf.c:716`), and nothing
  retransmits an LSA or exchanges databases, so databases stay different after one failure
  (`24_ospf.md:51`: "Every router in the same area should eventually have the same LSDB");
* a neighbour that is heard again after it was DOWN schedules no SPF, so routes through it return
  only with the next LSA or the next death; `RoutesComplete` is therefore about the calculation;
* with two links between two routers the neighbour's interface is the one heard on last and a
  Hello lists it only there, so the state alternates between FULL and INIT;
* `24_ospf.md:158` calls SPF scheduling debounced, but every LSU with a change schedules an event of
  its own; a destination whose first hop is DOWN gets no other path, since SPF does not
  leave dead neighbours out of the graph; the cost of an interface is stored and never used;
  a full LSDB drops LSAs without a sign;
* `ethernet_receive` passes only frames addressed to the interface, to all or to an IPv4
  multicast group (`ethernet.c:103`), so a unicast frame between two stations never reaches
  `switch_receive` over a link, although `14_switch.md` is about forwarding by destination MAC;
* a switch's ageing constants are given in milliseconds (`mac_table.h:8`: "5 minutes") and
  added to a clock in microseconds, so entries live 0.3 seconds;
* a switch with a full table drops a frame whose source it cannot learn (`switch.c:130`) where
  it might flood it; loops of switches are not prevented, as the documentation says.
