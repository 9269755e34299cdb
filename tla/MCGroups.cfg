SPECIFICATION Spec
CONSTANTS
  Users = {me, a}
  Me = me
  Chats = {c1}
  Requests = {q1, q2}
  None = None
  MaxAsked = 4
  MaxLoads = 2
  MaxAtOnce = 2
CONSTRAINT Focus
INVARIANTS
  TypeOK
  ListFollowsMembership
PROPERTIES
  EmptiedAreReclaimed
