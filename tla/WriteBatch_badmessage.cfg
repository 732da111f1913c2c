SPECIFICATION Spec
CONSTANTS
  TopicOrder <- MCTopicOrder
  Messages <- KnownMessages
  MaxQueries = 3
  MaxFailures = 0
  MaxUses = 1
CHECK_DEADLOCK FALSE
INVARIANTS
  SuccessMeansInserted
