--------------------------- MODULE MCDbDistributor ---------------------------
EXTENDS DbDistributor
CONSTANTS job1, job2, job3

\* Every kind but logging and monitoring is treated as writes are.
MCQueueOrder == <<"log", "mon", "write">>
=============================================================================
