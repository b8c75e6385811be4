\* Firmware before 0x000A: the enable bit of the driver is in the register that
\* the records for the interrupt sources update.
SPECIFICATION Spec
CONSTANTS
  f1 = f1
  f2 = f2
  set = set
  reset = reset
  other = other
  Flags = {f1, f2}
  Updates = {set}
  FlagOf <- MCFlagOf
  Enables = {set}
  Accesses = {other}
  NoRequest = NoRequest
  FdNumbers = {3}
  NoFd = 0
  LineInEnableRegister = TRUE
  interruptFlagsMask = {f1}
  MaxQueue = 2
  MaxScanRequests = 2
CHECK_DEADLOCK FALSE
INVARIANT InterruptsWatched
