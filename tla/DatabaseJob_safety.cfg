SPECIFICATION FairSpec
CONSTANTS
  Works <- MixedWorks
  UninitI = {0, 1, 3}
  UninitJ = {0, 1}
  MaxErrors = 2
  MaxCommitFaults = 1
  MaxJobs = 2
CHECK_DEADLOCK FALSE
INVARIANTS
  TypeOK
  FaultFreeOnce
  LossIsWithinTheStep
  BuffersComeBack
  CommitFaultCostsOne
PROPERTIES
  JobEnds
