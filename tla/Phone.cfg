SPECIFICATION PhoneSpec
CONSTANTS
  Desktop = desktop
  Phones = {p1}
  Contents = {x, y, z}
  Big = {z}
  Nothing = Nothing
  ChannelCap = 1
  MaxCopies = 2
  Peers = {near, far}
  Channels = {1, 2, 3}
  Runs = {1, 2}
  Absent = none
  SessionBudgets <- MCSessionBudgets
INVARIANT OffMeansOff
PROPERTIES  EchoesDie 
CHECK_DEADLOCK FALSE
