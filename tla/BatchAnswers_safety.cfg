SPECIFICATION BatchSpec
CHECK_DEADLOCK FALSE
CONSTANTS
  d1 = d1
  d2 = d2
  Device <- MCDevice
  MaxQueries = 4
  MaxSwaps = 2
  TopicOrder <- MCTopicOrder
  Messages <- MCMessages
  MaxWrites = 3
  MaxFailures = 1
  MaxUses = 2
INVARIANTS
  BatchTypeOK
  ResultIsOwn
  CachedAnswerIsWhole
  OwnVersion
  NothingFromBefore
PROPERTIES
  EveryReadIsAnswered
