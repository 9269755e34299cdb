SPECIFICATION SessionsSpec
CONSTANTS
  Devices = {d1, d2}
  Resets = {r1, r2}
  Sockets = {s1}
  Workers = {w1}
  NoDevice = NoDevice
  BrokerMayFail = FALSE
  MaxInFlight = 2
CONSTRAINTS FewRequestsAtOnce SocketOrSecondReset
SYMMETRY Symmetry
INVARIANTS SessionsTypeOK EvictedSessionsStayOut AcceptedTokensAreFresh RevocationReachesSockets
PROPERTY CallerKeepsItsSession
CHECK_DEADLOCK FALSE
