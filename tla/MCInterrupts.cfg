\* The memory access together with an interrupt record, for a device whose
\* driver has its own enable bit elsewhere.  The I/O thread stops after the
\* shutdown.
SPECIFICATION FairSpec
CONSTANTS
  f1 = f1
  f2 = f2
  set = set
  reset = reset
  other = other
  Flags = {f1, f2}
  Updates = {reset}
  FlagOf <- MCFlagOf
  Enables = {}
  Accesses = {other}
  NoRequest = NoRequest
  FdNumbers = {3}
  NoFd = 0
  LineInEnableRegister = FALSE
  interruptFlagsMask = {f1}
  MaxQueue = 2
  MaxScanRequests = 2
CHECK_DEADLOCK FALSE
INVARIANT TypeOK
INVARIANT InterruptsWatched
INVARIANT NothingLeftBehind
PROPERTY QueueStaysWatched
PROPERTY FlagsReported
PROPERTY FlagsHandled
PROPERTY RequestsAnswered
PROPERTY QueueServed
