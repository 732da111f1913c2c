SPECIFICATION Spec
CONSTANTS
  MaxQueries = 3
CHECK_DEADLOCK FALSE
INVARIANTS
  ResubmittedAreSettled
