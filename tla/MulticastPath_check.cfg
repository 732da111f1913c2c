SPECIFICATION MCSpec
CONSTANTS
  l1 = l1
  m1 = m1
  m2 = m2
  p1 = p1
  x1 = x1
  b1 = b1
  b2 = b2
  Buffer = {b1, b2, b3, b4, b5, b6}
  Message = {l1, m1, m2, p1, x1}
  TopicOrder <- MCTopicOrder
  TopicOf <- MCTopicOf
  Load <- MCLoad
  local_buffer_size = 1
  MaxFaults = 1
INVARIANTS
  TypeOK
  BuffersHaveOneOwner
  InsertedOnce
  SentInOrder
PROPERTIES
  WorkersKeepMessages
  EveryMessageInserted
CHECK_DEADLOCK FALSE
