SPECIFICATION BlobsSpec
CONSTANTS
  Blobs = {b1, b2}
  Messages = {m1}
INVARIANTS BlobsTypeOK 
PROPERTY OrphansAreReclaimed
CHECK_DEADLOCK FALSE
