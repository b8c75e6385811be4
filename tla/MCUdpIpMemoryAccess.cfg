\* A read and a write of 32 bits.
SPECIFICATION Spec
CONSTANTS
  r1 = r1
  r2 = r2
  w = w
  Reads = {r1}
  Writes = {w}
  MaxChanges = 1
  MaxReplies = 2
  MaxReported = 2
  MaxThrown = 1
  InOrder = TRUE
INVARIANT ReadCalledOnce
INVARIANT ReadConsistent
INVARIANT WrittenInOrder
CHECK_DEADLOCK FALSE
