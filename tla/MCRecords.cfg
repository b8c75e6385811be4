SPECIFICATION FairSpec
CONSTANTS
  Kinds = {"output", "input", "waveformOut", "waveformIn", "stringin", "fineDelay"}
  N = 2
  Values = {Zero, v}
  Zero = Zero
  MaxRequests = 2
  CounterModulus = 8
  MaxDisturbances = 1
  MaxChanges = 1
  BitsOf <- MCBitsOf
CHECK_DEADLOCK FALSE
INVARIANTS
  TypeOK
  DeviceFollowsRecord
  OutputsFollowRecord
PROPERTIES
  OutcomeReported
  WholeDelaysLatched
  Settles
