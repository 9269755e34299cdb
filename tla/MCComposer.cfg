SPECIFICATION Spec
CONSTANTS
  Convs = {c1,c2}
  Groups = {c1}
  Users = {u}
  Texts = {t}
  Empty = Empty
  None = None
  MaxPosted = 2
  MaxRequests = 2
  MaxFetches = 2
  MaxAtOnce = 2
CONSTRAINT Focus
INVARIANTS
  TypeOK
  BarIsDraft
  
