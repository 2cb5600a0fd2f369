SPECIFICATION Spec
CONSTANTS
  Routers = {"A", "B"}
  Ifaces <- TwinIfaces
  Node <- TwinNode
  Peer <- TwinPeer
  Origin = "a0"
  Distance <- RowDistance
  Prefixes = {"p"}
  DbSize = 1
  Infinity = 5
  Update = 1
  Timeout = 2
  Gc = 1
  MaxFaults = 0
PROPERTY Collected
