\* Two threads that find nothing in the cache.
SPECIFICATION FairSpec
CONSTANTS
  r1 = r1
  r2 = r2
  w = w
  Reads = {r1, r2}
  Writes = {}
  MaxChanges = 1
  MaxReplies = 1
  MaxReported = 1
  MaxThrown = 1
  InOrder = TRUE
INVARIANT TypeOK
INVARIANT ReadersAgree
PROPERTY ReadersReturn
CHECK_DEADLOCK FALSE
