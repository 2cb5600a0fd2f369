SPECIFICATION Spec
CONSTANTS
  NSlots = 2
  SeqMod = 16
  Ports = {1}
  Writers = {"client", "server"}
  Closers = {"client", "server"}
  MaxConns = 1
  MaxBytes = 2
  MaxFlight = 3
  MaxLosses = 1
  MaxFlaps = 2
CHECK_DEADLOCK FALSE
INVARIANTS TcbInv SeqSpaceAgrees OrderedDelivery
