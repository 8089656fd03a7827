SPECIFICATION Spec
CONSTANTS
  Ids = {a, b}
  Levels = {1, 2}
  Refreshes = {r1, r2}
  NoSnapshot = none
  Switches = {k1, window}
  Window = window
  MaxForwarded = 1
  EventCap = 2
  MirrorScenarios <- MCMirrorScenarios
  Adverts = {self, a, b, c}
  Self = self
  Addrs = {1, 2}
  NoAddr = 0
  Unnamed = unnamed
  MaxDiscovered = 2
  Resolves = 2
  ResolveWindow = 2
  MaxMdns = 2
  NearbyBudgets <- MCNearbyBudgets
  CopyBudgets <- MCCopyBudgets
  Phones = {p1, p2}
  NoKey = none
  Layout <- MCLayout
  Buttons = {"left"}
  Strangers = {"euro"}
  Unknown = none
  Fallback = 5
  Unit = 2
  PadScenarios <- MCPadScenarios
INVARIANTS  NearbyAgrees LatestIsNewest KeyboardFollowsPhones
PROPERTIES PanelSettles SelectionsAreRead
CHECK_DEADLOCK FALSE
