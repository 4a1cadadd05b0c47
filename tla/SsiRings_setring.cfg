CONSTANTS
  NumRings = 2
  Kinds = {"poly", "ring"}
  FileKinds = {"poly"}
  MaxAhead = 1
  MaxRequests = 4
SPECIFICATION Spec
CHECK_DEADLOCK FALSE
PROPERTY ReadChangesRing
