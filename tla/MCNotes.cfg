SPECIFICATION Spec
CONSTANTS
  Editors = {e1}
  NoteIds = {n1,n2}
  Files = {f}
  None = None
  Existing = {n1}
  MaxText = 2
  MaxChain = 2
INVARIANTS
  TypeOK
  
PROPERTIES
  
  EditsAreSaved
CHECK_DEADLOCK FALSE
