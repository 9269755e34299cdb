SPECIFICATION Spec
CONSTANTS
  Clients = {alice,bob,carol}
  Prompts = {m1,m2,m3}
  None = None
  MaxDrops = 1
  MaxInFlight = 2
CONSTRAINT FewInFlight
SYMMETRY Symmetry
INVARIANTS
  TypeOK
  TalksToPeer
  IdleReleasesMedia
  NoHalfOpenCall
CHECK_DEADLOCK FALSE
