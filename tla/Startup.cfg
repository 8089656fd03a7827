SPECIFICATION FairSpec
CONSTANTS
  Keys = {k1, k2, k3, k4, k5, k6}
  Pairs = {t1, t2, t3}
  PeerCerts = {c1, c2}
  Sessions <- MCSessions
  None = None
  Torn = Torn
  Plain = Plain
  Scenarios <- MCScenarios
INVARIANTS IdentityIsWhole PinsReadable CleanBillHolds
PROPERTIES PinnedCertStays TogglesRemembered Starts
CHECK_DEADLOCK FALSE
