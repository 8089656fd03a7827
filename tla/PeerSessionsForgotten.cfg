SPECIFICATION Spec
CONSTANTS
  c1 = c1
  k1 = k1
  Devices = {d1}
  Certs = {k1}
  NoCert = NoCert
  NoDevice = NoDevice
  Conns = {c1, c2}
  CertOf <- FirstPresents
  PeerCalls = {p1}
  LocalCalls = {u1}
  DbMayFail = TRUE
  QuietForget = FALSE
INVARIANT ForgottenStaysOut
CHECK_DEADLOCK FALSE
