---------------------------- MODULE DbDistributor ----------------------------
(***************************************************************************)
(* DatabaseWorkers::Thread and its worker farm.  One thread gathers what   *)
(* the six query queues of the DataModel hold into a job, queues the job   *)
(* and makes the next; a bounded number of workers run the jobs.  "exclude *)
(* some workers from handling logging and monitoring queries, so that we   *)
(* always have a few workers to handle more important stuff": logging and  *)
(* monitoring are taken only while fewer than max_log_mon_workers jobs     *)
(* with them are about.  The counter of those is incremented by the thread *)
(* and decremented by the workers.                                         *)
(*                                                                         *)
(* Of a queue, and of what a job took from it, only whether it is empty    *)
(* matters: a queue is a kind of query that is, or is not, waiting.        *)
(*                                                                         *)
(* An operator named Bug... is what a plausible mistake would make of the  *)
(* definition after it; nothing uses it.                                   *)
(***************************************************************************)
EXTENDS Naturals, Sequences, FiniteSets, Functions

CONSTANTS
  QueueOrder,           \* the kinds of query, as the thread takes them
  Job,                  \* the jobs there can be
  max_workers,          \* workers of the farm
  max_log_mon_workers

Kind == Range(QueueOrder)
LogMon == {"log", "mon"}

ASSUME DistributorAssumption ==
  /\ QueueOrder \in Seq(STRING)
  /\ IsFiniteSet(Job)
  /\ max_workers \in Nat /\ max_log_mon_workers \in Nat

VARIABLES
  queue,               \* the kinds that wait in a *_query_queue
  pc,                  \* the thread: 0 at the check, n at queue n, then dispatch
  admitted,            \* the check let logging and monitoring in
  the_job,             \* what the job being made has taken
  data,                \* what each job has taken
  job_queue,           \* the jobs that wait for a worker
  running,             \* the jobs workers are at
  n_log_mon_workers

thread == <<pc, admitted, the_job>>
farm == <<data, job_queue, running>>
vars == <<queue, thread, farm, n_log_mon_workers>>

\* The jobs that have been given out and are not over.
InFlight == Range(job_queue) \cup running

HasLogMon(taken) == taken \cap LogMon # {}
LogMonJobs == {k \in InFlight : HasLogMon(data[k])}

Init ==
  /\ queue = {}
  /\ pc = 0 /\ admitted = FALSE /\ the_job = {}
  /\ data = [k \in Job |-> {}]
  /\ job_queue = <<>> /\ running = {}
  /\ n_log_mon_workers = 0

\* The workers before this one, and the multicast workers, push a query.
Arrive(k) ==
  /\ queue' = queue \cup {k}
  /\ UNCHANGED <<thread, farm, n_log_mon_workers>>

-----------------------------------------------------------------------------
(* The thread.  Each queue has a mutex of its own, so arrivals and ends of *)
(* jobs come between any two of its steps.                                 *)

BugMayTakeOneMore == n_log_mon_workers <= max_log_mon_workers
MayTakeLogMon == n_log_mon_workers < max_log_mon_workers

Check ==
  /\ pc = 0
  /\ the_job' = {}
  /\ admitted' = MayTakeLogMon
  /\ pc' = 1
  /\ UNCHANGED <<queue, farm, n_log_mon_workers>>

\* Take the whole of the next queue, if there is anything and it may be taken.
Grab ==
  /\ pc \in DOMAIN QueueOrder
  /\ LET k == QueueOrder[pc]
         taken == IF k \in LogMon /\ ~admitted THEN {} ELSE queue \cap {k} IN
     /\ the_job' = the_job \cup taken
     /\ queue' = queue \ taken
  /\ pc' = pc + 1
  /\ UNCHANGED <<admitted, farm, n_log_mon_workers>>

\* The job is counted if it has logging or monitoring.
BugCountsLogsOnly(taken) ==
  n_log_mon_workers' = n_log_mon_workers + (IF "log" \in taken THEN 1 ELSE 0)
CountIn(taken) ==
  n_log_mon_workers' = n_log_mon_workers + (IF HasLogMon(taken) THEN 1 ELSE 0)

Dispatch ==
  /\ pc = Len(QueueOrder) + 1
  /\ the_job # {}
  /\ \E k \in Job \ InFlight :
       /\ data' = [data EXCEPT ![k] = the_job]
       /\ job_queue' = Append(job_queue, k)
  /\ CountIn(the_job)
  /\ pc' = 0
  /\ UNCHANGED <<queue, admitted, the_job, running>>

NothingToDo ==
  /\ pc = Len(QueueOrder) + 1
  /\ the_job = {}
  /\ pc' = 0
  /\ UNCHANGED <<queue, admitted, the_job, farm, n_log_mon_workers>>

-----------------------------------------------------------------------------
(* The workers.                                                            *)

StartJob ==
  /\ job_queue # <<>>
  /\ Cardinality(running) < max_workers
  /\ running' = running \cup {Head(job_queue)}
  /\ job_queue' = Tail(job_queue)
  /\ UNCHANGED <<queue, thread, data, n_log_mon_workers>>

\* DatabaseJob at its end, and DatabaseJobFail: the job is counted out.
BugNotCountedOut(k) == UNCHANGED n_log_mon_workers
CountOut(k) ==
  n_log_mon_workers' = n_log_mon_workers - (IF HasLogMon(data[k]) THEN 1 ELSE 0)

Leave(k) ==
  /\ k \in running
  /\ running' = running \ {k}
  /\ CountOut(k)
  /\ UNCHANGED <<queue, thread, data, job_queue>>

FinishJob(k) == Leave(k)
FailJob(k) == Leave(k)

Thread == Check \/ Grab \/ Dispatch \/ NothingToDo

Next ==
  \/ \E k \in Kind : Arrive(k)
  \/ Thread
  \/ StartJob
  \/ \E k \in Job : FinishJob(k) \/ FailJob(k)

Spec == Init /\ [][Next]_vars

\* Threads are scheduled, and a job without logging and monitoring ends.  Of the
\* others nothing is assumed: they may be stuck for good.
FairSpec ==
  /\ Spec
  /\ WF_vars(Thread) /\ WF_vars(StartJob)
  /\ \A k \in Job : WF_vars(~HasLogMon(data[k]) /\ FinishJob(k))

-----------------------------------------------------------------------------
(* What is required.                                                       *)

TypeOK ==
  /\ queue \subseteq Kind
  /\ pc \in 0..(Len(QueueOrder) + 1)
  /\ admitted \in BOOLEAN
  /\ the_job \subseteq Kind
  /\ data \in [Job -> SUBSET Kind]
  /\ job_queue \in Seq(Job)
  /\ running \subseteq Job
  /\ n_log_mon_workers \in Nat

\* The counter is the number of the jobs it is meant to count: none is counted
\* twice, forgotten, or counted out by another, whatever order jobs end in.
CounterIsExact == n_log_mon_workers = Cardinality(LogMonJobs)

\* No more than max_log_mon_workers jobs have logging or monitoring, though the
\* limit is checked long before the job is counted.
LogMonBounded == Cardinality(LogMonJobs) <= max_log_mon_workers

\* Even with every job that has logging or monitoring stuck, a job that has none
\* is done: a few workers are left for more important stuff.
OthersAreDone == \A k \in Job :
  (k \in InFlight /\ ~HasLogMon(data[k])) ~> (k \notin InFlight)

\* If no job is stuck, logging and monitoring are not put off for ever.
LogMonTaken ==
  (\A k \in Job : []<>(k \notin running))
    => \A q \in LogMon : (q \in queue) ~> (q \notin queue)
=============================================================================
