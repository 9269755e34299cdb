SPECIFICATION Spec
CONSTANTS
  Threads = {t1,t2}
  None = None
  MaxPosts = 3
  MaxTasks = 2
CONSTRAINT Focus
INVARIANTS
  TypeOK
  KeysMatch
CHECK_DEADLOCK FALSE
