SPECIFICATION FairSpec
CONSTANTS
  read1 = read1
  write1 = write1
  write2 = write2
  NoRequest = NoRequest
  Requests <- MCRequests
  Idempotent = {read1}
  MaxRefs = 4
  consecutiveLossesLimit = 2
  initialCongestionWindow = 1
  maxRequestTimeoutsBeforeOffline = 0
  FirstSendResults = {"sent", "again", "error"}
  RetransmitResults = {"sent", "again", "error"}
INVARIANT TypeOK
INVARIANT CalledTwiceOnlyIfSendFailed
INVARIANT RequestsWatched
INVARIANT InFlightAwaited
PROPERTY NotSentAfterAnswer
PROPERTY ImplementsCallbacks
CHECK_DEADLOCK FALSE
