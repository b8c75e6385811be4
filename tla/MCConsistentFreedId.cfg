SPECIFICATION Spec
CONSTANTS
  wide = wide
  wide2 = wide2
  high = high
  low = low
  again = again
  readAgain = readAgain
  writeAgain = writeAgain
  NoOp = NoOp
  Ops <- MCOps
  Kind <- MCKind
  Address <- MCAddress
  Width <- MCWidth
  Repeats = {}
  Repeated <- MCRepeated
  Request <- MCRequest
  Late = {}
  FreedIds = {"intact", "garbage"}
  RacyLookups = {"found"}
INVARIANT FinishedDoesNotThrow
CHECK_DEADLOCK FALSE
