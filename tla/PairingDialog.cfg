SPECIFICATION FairDialogSpec
CONSTANTS
  Devices = {d1, d2}
  Threads = {t1, t2}
  Pins = {p1, p2}
  PinTTL = 1
  Cooldown = 1
  MaxAttempts = 1
  MaxTracked = 1
  ChannelCap = 1
  MaxClock = 1
  SerialClients = TRUE
INVARIANTS PendingBounded ShownPinIsChecked
 
CHECK_DEADLOCK FALSE
