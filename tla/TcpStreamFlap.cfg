SPECIFICATION Spec
CONSTANTS
  NSlots = 2
  SeqMod = 16
  Ports = {1}
  Writers = {"client"}
  Closers = {}
  MaxConns = 1
  MaxBytes = 2
  MaxFlight = 3
  MaxLosses = 0
  MaxFlaps = 2
CHECK_DEADLOCK FALSE
INVARIANT StreamIntact
