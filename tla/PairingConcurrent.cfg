SPECIFICATION Spec
CONSTANTS
  Devices = {d1, d2}
  Threads = {t1, t2}
  Pins = {p1, p2}
  PinTTL = 1
  Cooldown = 1
  MaxAttempts = 2
  MaxTracked = 2
  ChannelCap = 1
  MaxClock = 2
  SerialClients = FALSE
SYMMETRY Symmetry
INVARIANTS PinHeldOnce GuessesBounded
PROPERTY ImplementsPinLifecycle
CHECK_DEADLOCK FALSE
