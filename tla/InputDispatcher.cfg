SPECIFICATION FairSpec
CONSTANTS
  Peers = {p1, p2}
  Keys = {k1, k2}
  MaxNonMove = 2
  MaxEvents = 4
  MaxFailures = 1
INVARIANTS InOrder NoBacklogWhileDisabled KeyStateCatchesUp
PROPERTY EventsLeave
