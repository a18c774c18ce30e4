SPECIFICATION Spec
CONSTANTS
  Segments <- MCSegments
  Base <- MCBase
  MaxDepth = 4
INVARIANTS
  Contained
  OneReading
  OneIdentity
CHECK_DEADLOCK FALSE
