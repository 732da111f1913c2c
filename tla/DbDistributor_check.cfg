SPECIFICATION FairSpec
CONSTANTS
  QueueOrder <- MCQueueOrder
  Job = {job1, job2, job3}
  max_workers = 2
  max_log_mon_workers = 1
  job1 = job1
  job2 = job2
  job3 = job3
INVARIANTS
  TypeOK
  CounterIsExact
  LogMonBounded
PROPERTIES
  OthersAreDone
  LogMonTaken
