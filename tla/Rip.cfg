SPECIFICATION Spec
CONSTANTS
  Routers = {"A", "B"}
  Ifaces <- RowIfaces
  Node <- RowNode
  Peer <- RowPeer
  Origin = "a0"
  Distance <- RowDistance
  Prefixes = {"p"}
  DbSize = 2
  Infinity = 5
  Update = 1
  Timeout = 2
  Gc = 1
  MaxFaults = 1
INVARIANTS DatabaseInv NothingLingers NoMutualRoutes
PROPERTIES Converges Collected
