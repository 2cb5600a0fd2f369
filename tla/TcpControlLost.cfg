SPECIFICATION ClosingSpec
CONSTANTS
  NSlots = 2
  SeqMod = 16
  Ports = {1}
  Writers = {}
  Closers = {"client"}
  MaxConns = 1
  MaxBytes = 2
  MaxFlight = 3
  MaxLosses = 1
  MaxFlaps = 0
CHECK_DEADLOCK FALSE
PROPERTY ControlRepaired
