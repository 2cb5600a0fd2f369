SPECIFICATION Spec
CONSTANTS
  NSlots = 2
  SeqMod = 16
  Ports = {1, 2}
  Writers = {"client"}
  Closers = {"client", "server"}
  MaxConns = 2
  MaxBytes = 2
  MaxFlight = 2
  MaxLosses = 1
  MaxFlaps = 0
CHECK_DEADLOCK FALSE
INVARIANTS StreamIntact SlotsOwned NoHalfOpen
