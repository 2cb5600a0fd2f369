------------------------------- MODULE Switch -------------------------------
(***************************************************************************)
(* Learning switches (src/src/network/switch.c, mac_table.c) joined by      *)
(* links, with stations at their edges.                                     *)
(*                                                                          *)
(* A frame enters when a port's receive handler, or the program itself,     *)
(* calls switch_receive.  Between switches and to stations it travels as    *)
(* ethernet.c and link.c carry it: with the MAC of the port it left by as   *)
(* its source, and past an address filter on arrival.  Interfaces stand for *)
(* their MACs.  timestamp is kept as an age; links are fast against the     *)
(* step of time.                                                            *)
(***************************************************************************)
EXTENDS Integers, Sequences, FiniteSets

CONSTANTS
  Switches,
  Ports,        \* the ports of all switches, all of them with a link
  Home,         \* the switch a port belongs to
  Stations,     \* interfaces that are no switch's
  Peer,         \* the other end of an interface's link
  Broadcast,    \* ETH_BROADCAST
  Multicast,    \* MACs of IPv4 multicast groups, in frames of that type
  TableSize,    \* MAC_TABLE_SIZE
  MacAge,       \* MAC_AGE_MS
  AgeInterval,  \* SW_AGE_INTERVAL
  Traffic,      \* bound: the frames that may enter, as <<port, source, destination>>
  MaxFrames,    \* bound: frames that enter
  Fragile,      \* bound: the ports that may be taken down
  MaxFaults     \* bound: how often

Ifaces == Ports \cup Stations

(* The destinations that every interface's address filter passes.           *)
ToAll == {Broadcast} \cup Multicast

ASSUME NetworkAssumption ==
  /\ Home \in [Ports -> Switches] /\ Peer \in [Ifaces -> Ifaces]
  /\ Ports \cap Stations = {} /\ ToAll \cap Ifaces = {}
  /\ \A i \in Ifaces : Peer[Peer[i]] = i /\ Peer[i] # i
  /\ \A i \in Stations : Peer[i] \in Ports
  /\ Traffic \subseteq {Peer[i] : i \in Stations} \X Stations \X (Stations \cup ToAll)
ASSUME SwitchSizesAssumption ==
  /\ TableSize \in Nat \ {0} /\ MacAge \in Nat /\ AgeInterval \in Nat \ {0}
  /\ MaxFrames \in Nat /\ MaxFaults \in Nat /\ Fragile \subseteq Ports

Slots   == 1 .. TableSize
Entry   == [mac: Ifaces, port: Ports, age: Nat]
Invalid == [port |-> "none"]

(* id tells apart the frames that entered.                                  *)
Frame == [id: 1 .. MaxFrames, src: Ifaces, dst: Ifaces \cup ToAll]

VARIABLES
  entries,  \* each switch's MAC table
  count,    \* its count
  timer,    \* time until its next EVT_MAC_AGE
  wire,     \* the frames in flight to each interface, oldest first
  up,       \* the ports that are up
  faults,   \* bounded
  entered,  \* bounded, history: where the frames entered and what for
  got,      \* history: the frames each station received, in order
  lost      \* history: frames of which a switch or link dropped a copy

history == <<entered, got, lost>>
vars == <<entries, count, timer, wire, up, faults, history>>

TypeOK ==
  /\ entries \in [Switches -> [Slots -> Entry \cup {Invalid}]]
  /\ count \in [Switches -> 0 .. TableSize]
  /\ timer \in [Switches -> 0 .. AgeInterval]
  /\ wire \in [Ifaces -> Seq(Frame)]
  /\ up \subseteq Ports /\ faults \in 0 .. MaxFaults
  /\ entered \in Seq([port: Ports, dst: Ifaces \cup ToAll])
  /\ got \in [Stations -> Seq(1 .. MaxFrames)] /\ lost \subseteq 1 .. MaxFrames

(* switch_create and switch_add_port.                                       *)
Init ==
  /\ entries = [s \in Switches |-> [k \in Slots |-> Invalid]]
  /\ count = [s \in Switches |-> 0]
  /\ timer = [s \in Switches |-> AgeInterval]
  /\ wire = [i \in Ifaces |-> <<>>]
  /\ up = Ports /\ faults = 0
  /\ entered = <<>> /\ got = [i \in Stations |-> <<>>] /\ lost = {}

-----------------------------------------------------------------------------
(* The MAC table.                                                           *)

Valid(s) == {k \in Slots : entries[s][k] # Invalid}

First(S) == CHOOSE k \in S : \A l \in S : k <= l

(* mac_table_learn: the slots it may use, of which it takes the first: the  *)
(* one that holds the address or else a free one.                           *)
LearnSlot(s, mac) ==
  LET match == {k \in Valid(s) : entries[s][k].mac = mac}
  IN  IF match # {} THEN match ELSE Slots \ Valid(s)

Learn(s, mac, port) ==
  LET k == First(LearnSlot(s, mac))
  IN  /\ entries' = [entries EXCEPT ![s][k] = [mac |-> mac, port |-> port, age |-> 0]]
      /\ count' = [count EXCEPT ![s] = IF k \in Valid(s) THEN @ ELSE @ + 1]

(* mac_table_lookup: the ports it may return, the first of which it does,   *)
(* in the table after mac was learnt.                                       *)
Known(s, dst) == {k \in Slots : entries'[s][k] # Invalid /\ entries'[s][k].mac = dst}

Removed(s, old) ==
  /\ entries' = [entries EXCEPT ![s] = [k \in Slots |-> IF k \in old THEN Invalid ELSE @[k]]]
  /\ count' = [count EXCEPT ![s] = @ - Cardinality(old)]

-----------------------------------------------------------------------------
(* Forwarding.                                                              *)

(* Mutant: a flood goes out of the incoming port too.                       *)
FloodPortsAll(s, in) == {p \in Ports : Home[p] = s}

(* The ports a flood leaves by if they are up.                              *)
FloodPorts(s, in) == {p \in Ports \ {in} : Home[p] = s}

(* interface_is_up of the port and, in link_transmit, of the far end.       *)
Sendable(p) == {p, Peer[p]} \subseteq up \cup Stations

(* ethernet_send and link_transmit.  rest is what the wires carried before. *)
Transmitted(rest, out, f) ==
  [i \in Ifaces |-> IF Peer[i] \in out /\ Sendable(Peer[i])
                    THEN Append(rest[i], [f EXCEPT !.src = Peer[i]]) ELSE rest[i]]

(* Mutant: a frame that arrives at a port taken down is handled.            *)
AcceptedDown(in) == TRUE

(* The port is looked at when the frame arrives.                            *)
Accepted(in) == in \in up

(* switch_receive: a frame whose source cannot be learnt is dropped.        *)
SwitchReceive(s, in, f, rest) ==
  IF ~Accepted(in) \/ LearnSlot(s, f.src) = {}
  THEN wire' = rest /\ lost' = lost \cup {f.id} /\ UNCHANGED <<entries, count>>
  ELSE /\ Learn(s, f.src, in)
       /\ LET known == Known(s, f.dst)
              out   == IF f.dst = Broadcast \/ known = {} THEN FloodPorts(s, in)
                       ELSE {entries'[s][First(known)].port} \ {in}
          IN  /\ wire' = Transmitted(rest, out, f)
              /\ lost' = IF out # {} /\ \A p \in out : Sendable(p) THEN lost
                         ELSE lost \cup {f.id}

(* A frame of a station enters by a port at the edge; stations may move.    *)
Enter(p, src, dst) ==
  /\ Len(entered) < MaxFrames
  /\ entered' = Append(entered, [port |-> p, dst |-> dst])
  /\ SwitchReceive(Home[p], p, [id |-> Len(entered'), src |-> src, dst |-> dst], wire)
  /\ UNCHANGED <<timer, up, faults, got>>

(* ethernet_receive passes what is addressed to the interface, to all or to *)
(* an IPv4 group.                                                           *)
Passes(i) == Head(wire[i]).dst \in {i} \cup ToAll

Rest(i) == [wire EXCEPT ![i] = Tail(@)]

(* A frame arrives at a port.                                               *)
ArrivePort(p) ==
  /\ wire[p] # <<>>
  /\ IF Passes(p) THEN SwitchReceive(Home[p], p, Head(wire[p]), Rest(p))
     ELSE wire' = Rest(p) /\ UNCHANGED <<entries, count, lost>>
  /\ UNCHANGED <<timer, up, faults, entered, got>>

(* A frame arrives at a station.                                            *)
ArriveStation(i) ==
  /\ wire[i] # <<>>
  /\ wire' = Rest(i)
  /\ got' = IF Passes(i) THEN [got EXCEPT ![i] = Append(@, Head(wire[i]).id)] ELSE got
  /\ UNCHANGED <<entries, count, timer, up, faults, entered, lost>>

-----------------------------------------------------------------------------
(* Ports and time.                                                          *)

Fault == faults < MaxFaults /\ faults' = faults + 1

(* switch_port_down and mac_table_flush_port.                               *)
PortDown(p) ==
  /\ Fault /\ p \in up /\ up' = up \ {p}
  /\ Removed(Home[p], {k \in Valid(Home[p]) : entries[Home[p]][k].port = p})
  /\ UNCHANGED <<timer, wire, history>>

(* interface_set_up.                                                        *)
PortUp(p) ==
  /\ p \notin up /\ up' = up \cup {p}
  /\ UNCHANGED <<entries, count, timer, wire, faults, history>>

Quiet == \A i \in Ifaces : wire[i] = <<>>

(* Mutant: the last slot is not looked at.                                  *)
OldButLast(s) == {k \in Valid(s) \ {TableSize} : entries[s][k].age > MacAge}

(* mac_table_age.                                                           *)
Old(s) == {k \in Valid(s) : entries[s][k].age > MacAge}

(* Mutant: only a switch with something to age looks again.                 *)
AgeTimerOnce(s) ==
  /\ timer[s] = 0 /\ Quiet /\ Removed(s, Old(s))
  /\ timer' = [timer EXCEPT ![s] = IF Old(s) = {} THEN 100 ELSE AgeInterval]
  /\ UNCHANGED <<wire, up, faults, history>>

(* mac_age_handler.                                                         *)
AgeTimer(s) ==
  /\ timer[s] = 0 /\ Quiet /\ Removed(s, Old(s))
  /\ timer' = [timer EXCEPT ![s] = AgeInterval]
  /\ UNCHANGED <<wire, up, faults, history>>

(* Time passes when nothing is due.  Ages beyond what a scan spares are     *)
(* alike.                                                                   *)
AgeCap == MacAge + AgeInterval + 1

Older(e) == IF e = Invalid \/ e.age = AgeCap THEN e ELSE [e EXCEPT !.age = @ + 1]

Tick ==
  /\ Quiet /\ \A s \in Switches : timer[s] > 0
  /\ timer' = [s \in Switches |-> timer[s] - 1]
  /\ entries' = [s \in Switches |-> [k \in Slots |-> Older(entries[s][k])]]
  /\ UNCHANGED <<count, wire, up, faults, history>>

-----------------------------------------------------------------------------

Step ==
  \/ \E p \in Ports : ArrivePort(p)
  \/ \E i \in Stations : ArriveStation(i)
  \/ \E s \in Switches : AgeTimer(s)
  \/ Tick

Next ==
  \/ Step
  \/ \E t \in Traffic : Enter(t[1], t[2], t[3])
  \/ \E p \in Fragile : PortDown(p) \/ PortUp(p)

(* The scheduler goes on dispatching the next event.                        *)
Spec == Init /\ [][Next]_vars /\ WF_vars(Step)

-----------------------------------------------------------------------------
(* Properties.                                                              *)

(* No address is known at a port that is down, also not one from a frame    *)
(* that was in flight when the port was taken down.                         *)
NothingBehindDownPort ==
  \A s \in Switches : \A k \in Valid(s) : entries[s][k].port \in up

(* An address has one entry, and count is the number of entries, whatever   *)
(* holes ageing and flushing have left before it.                           *)
TableExact ==
  \A s \in Switches :
    /\ count[s] = Cardinality(Valid(s))
    /\ \A k, l \in Valid(s) : entries[s][k].mac = entries[s][l].mac => k = l

(* The tables are sound after every order of learning, moving, ageing and   *)
(* flushing, with frames in flight.                                         *)
TableInv == TypeOK /\ TableExact /\ NothingBehindDownPort

(* A station that fell silent or moved is forgotten one scan after its age  *)
(* is over, so frames for it are flooded again.                             *)
AgeBounded ==
  \A s \in Switches : \A k \in Valid(s) : entries[s][k].age <= MacAge + AgeInterval

(* Where the links form a tree no station receives a frame twice, nor       *)
(* receives back what entered by its own port.                              *)
NoDuplicates ==
  \A i \in Stations :
    /\ \A m, n \in DOMAIN got[i] : got[i][m] = got[i][n] => m = n
    /\ \A n \in DOMAIN got[i] : entered[got[i][n]].port # Peer[i]

(* A broadcast, or a multicast, which no table knows, has reached every     *)
(* other station when nothing is in flight, unless a switch or a link       *)
(* dropped a copy of it.                                                    *)
BroadcastReaches ==
  Quiet =>
    \A f \in DOMAIN entered : f \notin lost /\ entered[f].dst \in ToAll =>
      \A i \in Stations : Peer[i] # entered[f].port => \E n \in DOMAIN got[i] : got[i][n] = f

(* A broadcast or multicast reaches every other station once.               *)
BroadcastOnce == NoDuplicates /\ BroadcastReaches

(* When no more frames enter, those in flight come to an end and all        *)
(* addresses are forgotten, so that a full table, which drops the frames of *)
(* new stations, does not stay full.                                        *)
Forgotten == <>[](Quiet /\ \A s \in Switches : count[s] = 0)

=============================================================================
