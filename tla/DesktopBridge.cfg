SPECIFICATION BridgeSpec
CONSTANTS
  Procs = {p1, p2}
  Callers = {launch}
  Launch = launch
  Bounds <- MCBounds
  None = None
PROPERTIES PanelLearns
CHECK_DEADLOCK FALSE
