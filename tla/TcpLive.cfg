SPECIFICATION ClosingSpec
CONSTANTS
  NSlots = 2
  SeqMod = 16
  Ports = {1}
  Writers = {"client"}
  Closers = {"client"}
  MaxConns = 1
  MaxBytes = 2
  MaxFlight = 3
  MaxLosses = 2
  MaxFlaps = 0
CHECK_DEADLOCK FALSE
PROPERTIES DataAcknowledged HandshakeCompletes CloseCompletes
