SPECIFICATION FairSpec
CONSTANTS
  wide = wide
  wide2 = wide2
  high = high
  low = low
  again = again
  readAgain = readAgain
  writeAgain = writeAgain
  NoOp = NoOp
  Ops <- MCThreeOps
  Kind <- MCKind
  Address <- MCAddress
  Width <- MCWidth
  Repeats <- MCRepeats
  Repeated <- MCRepeated
  Request <- MCRequest
  Late = {low}
  FreedIds = {"intact"}
  RacyLookups = {"found"}
INVARIANT TypeOK
INVARIANT NoLostWakeup
INVARIANT FinishedDoesNotThrow
PROPERTY ImplementsAtomicRegisters
CHECK_DEADLOCK FALSE
