CONSTANTS
  Clients = {c1, c2}
  ChanCap = 2
  MaxSamples = 5
SPECIFICATION FairSpec
INVARIANTS TypeOK NoSendOnClosed
PROPERTIES ImplementsLossyStream BroadcastEnds LeaversLeave
CHECK_DEADLOCK FALSE
