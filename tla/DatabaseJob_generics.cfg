SPECIFICATION FairSpec
CONSTANTS
  Works <- MixedWorks
  UninitI = {0}
  UninitJ = {0}
  MaxErrors = 1
  MaxCommitFaults = 0
  MaxJobs = 2
CHECK_DEADLOCK FALSE
INVARIANTS
  GenericsExecuted
