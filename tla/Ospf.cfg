SPECIFICATION Spec
CONSTANTS
  Ids = {1, 2, 3}
  Infinity = 100
  Routers = {1, 2, 3}
  Ifaces <- TriIfaces
  Node <- TriNode
  Peer <- TriPeer
  Origin = "o"
  Enabled <- TriEnabled
  Mask <- TriMask
  Keys <- TriKeys
  Adv <- TriAdv
  Edges <- TriEdges
  Updates <- TriUpdates
  LsdbSize = 2
  MaxNeighbors = 2
  Dead = 2
  FirstScan <- TriScan
  Fragile = {"b1", "b3", "c1", "c2"}
  MaxUpdates = 2
  MaxFaults = 1
INVARIANTS NeighborInv FloodReaches RoutesShortest CalculationsBounded
PROPERTIES RoutesComplete Settles
