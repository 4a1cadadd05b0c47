CONSTANTS
  BuffLen = 2
  Script <- MCScript
  IntMax = 12
  MayDie = TRUE
SPECIFICATION Spec
INVARIANT IntactUnlessEof
PROPERTY ReaderFinishes
