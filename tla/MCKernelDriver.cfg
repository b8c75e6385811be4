SPECIFICATION MCSpec
CONSTANTS
  Processes = {p, q}
  DevTypes = {"V2P_9030", "V5_9056", "V5_PCIE", "ECP3", "K7_PCIE"}
  EepromAlone = TRUE
  PageSize = 2
  FlashSize = 8
  PrimaryStart = 2
  PrimaryEnd = 4
  SectorSize = 2
  AddressBase = 2
  FpgaIrLen = 10
  XcfIrLen = 16
  BlockSize = 1
  MaxImage = 4
  MaxOpens = 3
  MaxInterrupted = 1
  b1 = b1
  a1 = a1
  Boards = {b1, b2, b3}
  Addresses = {a1, a2, a3}
  MaxDevices = 2
CHECK_DEADLOCK FALSE
INVARIANTS
  TypesOK
  OperationsReachTheirDevice
  FlashHoldsImage
  GoldenImageKept
  ReadsReturnFlash
  ReleasedWhenClosed
  SlotsMatchBoards
PROPERTIES
  OnlyErasedProgrammed
