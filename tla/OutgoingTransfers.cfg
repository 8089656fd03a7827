SPECIFICATION FairSpec
CONSTANTS
  Procs = {p1, p2, p3}
  Callers = {launch, button}
  Launch = launch
  Bounds <- MCBounds
  None = None
  Sends = {s1, s2}
  Files = {f1}
  Chunks = 1
  Window = 1
  EventCap = 1
  MaxRows = 1
INVARIANTS HistoryTellsTheTruth HandlesMatchSends
PROPERTIES ClientFollowsDaemon SendsEnd
CHECK_DEADLOCK FALSE
