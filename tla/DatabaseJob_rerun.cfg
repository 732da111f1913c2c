SPECIFICATION FairSpec
CONSTANTS
  Works <- PlainWorks
  UninitI = {0}
  UninitJ = {0}
  MaxErrors = 1
  MaxCommitFaults = 0
  MaxJobs = 1
CHECK_DEADLOCK FALSE
INVARIANTS
  RerunRestoresTheRest
