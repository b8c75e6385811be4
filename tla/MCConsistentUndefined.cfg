SPECIFICATION Spec
CONSTANTS
  wide = wide
  wide2 = wide2
  high = high
  low = low
  again = again
  readAgain = readAgain
  writeAgain = writeAgain
  NoOp = NoOp
  Ops <- MCThreeOps
  Kind <- MCKind
  Address <- MCAddress
  Width <- MCWidth
  Repeats <- MCUpdateRepeats
  Repeated <- MCRepeated
  Request <- MCRequest
  Late = {wide}
  FreedIds = {"intact"}
  RacyLookups = {"found", "missing"}
INVARIANT MutualExclusion
INVARIANT UpdateAtomic
CHECK_DEADLOCK FALSE
