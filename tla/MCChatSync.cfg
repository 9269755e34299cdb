SPECIFICATION Spec
CONSTANTS
  Messages = {m1, m2}
  Mine = {m1}
  MaxEdits = 1
  PageSize = 1
  Slots = {s1, s2}
  NoMessage = NoMessage
  NoSlot = NoSlot
  BrokerMayFail = FALSE
  MaxInFlight = 2
CONSTRAINT FewInFlight
INVARIANT TypeOK
PROPERTIES UnsendIsFinal OnlyPagingDuplicates Reconciles
CHECK_DEADLOCK FALSE
