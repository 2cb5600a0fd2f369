SPECIFICATION Spec
CONSTANTS
  Switches = {"s", "t"}
  Ports = {"p1", "p2", "p3", "q1", "q2"}
  Home <- TreeHome
  Stations = {"a", "b", "c"}
  Peer <- TreePeer
  Broadcast = "all"
  Multicast = {"group"}
  TableSize = 2
  MacAge = 1
  AgeInterval = 2
  Traffic <- TreeTraffic
  MaxFrames = 3
  Fragile = {"p2", "q1"}
  MaxFaults = 1
INVARIANTS TableInv AgeBounded BroadcastOnce
PROPERTIES Forgotten
