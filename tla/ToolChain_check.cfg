SPECIFICATION FairSpec
CHECK_DEADLOCK FALSE
CONSTANTS
  Order <- MCOrder
  Threaded <- MCThreaded
  Receivers <- MCReceivers
  MaxStopped = 2
  MaxRequests = 2
INVARIANTS
  TypeOK
PROPERTIES
  StopIsHeeded
  StoppedIsTriedAgain
