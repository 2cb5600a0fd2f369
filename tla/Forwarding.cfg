SPECIFICATION Spec
CONSTANTS
  Ifaces <- MCIfaces
  Peer <- MCPeer
  Node <- MCNode
  Routers = {"R1", "R2"}
  Senders = {"r1a", "r1b"}
  Targets = {"a", "x", "g"}
  Addresses <- MCAddresses
  OnLink <- MCOnLink
  Routes <- MCRoutes
  CacheSize = 1
  PendingSize = 2
  InitTtl = 3
  MaxPackets = 2
  MaxArps = 2
  MaxFaults = 1
CHECK_DEADLOCK FALSE
INVARIANTS PendingInv HopHonoured
PROPERTY Drains
