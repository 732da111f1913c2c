SPECIFICATION FairSpec
CHECK_DEADLOCK FALSE
CONSTANTS
  read = read
  write = write
  c1 = c1
  c2 = c2
  Socket <- MCSocket
  Replying <- MCReplying
  Client <- MCClient
  Early <- MCEarly
  MaxCalls = 1
  MaxStops = 1
INVARIANTS
  TypeOK
  SocketIsSafe
PROPERTIES
  RequestIsServed
  ClientsAreListed
