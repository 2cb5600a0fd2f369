SPECIFICATION Spec
CONSTANTS
  Width = 2
  RibSize = 3
  StaticSize = 2
  Dests <- MCDests
  Dynamic = {"P7", "P8"}
  Hops = {1}
  Metrics = {1, 2}
  MaxRoutes = 4
INVARIANTS RibInv LookupIsBest StaticAgrees
