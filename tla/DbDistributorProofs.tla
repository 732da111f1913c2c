------------------------- MODULE DbDistributorProofs -------------------------
(***************************************************************************)
(* The counter of logging and monitoring jobs is exact and bounded, for    *)
(* any queues, jobs and number of workers.                                 *)
(*                                                                         *)
(* The bound does not follow from exactness alone: the limit is checked    *)
(* when the making of a job begins, the counter moves when it is given     *)
(* out, and workers finish in between.  What carries it over is Room: a    *)
(* job being made has logging or monitoring only if the check let them in, *)
(* and as only this thread counts up there is still room for it.           *)
(***************************************************************************)
EXTENDS DbDistributor, FiniteSetTheorems, TLAPS

\* A job waits in one place of the queue, or runs, or neither.
Distinct ==
  /\ \A i, j \in DOMAIN job_queue : job_queue[i] = job_queue[j] => i = j
  /\ Range(job_queue) \cap running = {}

Room ==
  /\ n_log_mon_workers <= max_log_mon_workers
  /\ pc > 0 => /\ HasLogMon(the_job) => admitted
               /\ admitted => n_log_mon_workers < max_log_mon_workers

FarmInv == TypeOK /\ Distinct /\ CounterIsExact /\ Room

-----------------------------------------------------------------------------
(* Queues of jobs.                                                         *)

\* Appending to a queue adds to the jobs in it.
LEMMA RangeOfAppend ==
  ASSUME NEW S, NEW s \in Seq(S), NEW x \in S
  PROVE  Range(Append(s, x)) = Range(s) \cup {x}
  <1>1. DOMAIN Append(s, x) = DOMAIN s \cup {Len(s) + 1}
    OBVIOUS
  <1>2. /\ \A i \in DOMAIN s : Append(s, x)[i] = s[i]
        /\ Append(s, x)[Len(s) + 1] = x
    OBVIOUS
  <1> QED
    BY <1>1, <1>2 DEF Range

\* The head of a queue and its tail are what is in it, and with no repetition
\* the head is not in the tail.
LEMMA HeadAndTail ==
  ASSUME NEW S, NEW s \in Seq(S), s # <<>>
  PROVE  /\ Head(s) \in S /\ Tail(s) \in Seq(S)
         /\ Range(s) = {Head(s)} \cup Range(Tail(s))
         /\ (\A i, j \in DOMAIN s : s[i] = s[j] => i = j)
              => /\ Head(s) \notin Range(Tail(s))
                 /\ \A i, j \in DOMAIN Tail(s) : Tail(s)[i] = Tail(s)[j] => i = j
  <1>1. /\ Len(s) \in Nat \ {0} /\ DOMAIN s = 1..Len(s)
        /\ Head(s) = s[1] /\ Tail(s) \in Seq(S)
        /\ DOMAIN Tail(s) = 1..(Len(s) - 1)
        /\ \A i \in 1..(Len(s) - 1) : Tail(s)[i] = s[i + 1]
    OBVIOUS
  <1>2. \A i \in DOMAIN s : i = 1 \/ (i - 1 \in DOMAIN Tail(s) /\ s[i] = Tail(s)[i - 1])
    BY <1>1
  <1>3. \A i \in DOMAIN Tail(s) : i + 1 \in DOMAIN s /\ Tail(s)[i] = s[i + 1]
    BY <1>1
  <1>4. 1 \in DOMAIN s /\ Head(s) = s[1] /\ Head(s) \in S
    BY <1>1
  <1>5. Range(s) = {Head(s)} \cup Range(Tail(s))
    <2>1. ASSUME NEW y \in Range(s) PROVE y \in {Head(s)} \cup Range(Tail(s))
      BY <1>2, <1>4 DEF Range
    <2>2. ASSUME NEW y \in {Head(s)} \cup Range(Tail(s)) PROVE y \in Range(s)
      BY <1>3, <1>4 DEF Range
    <2> QED BY <2>1, <2>2
  <1>6. ASSUME \A i, j \in DOMAIN s : s[i] = s[j] => i = j
        PROVE  /\ Head(s) \notin Range(Tail(s))
               /\ \A i, j \in DOMAIN Tail(s) : Tail(s)[i] = Tail(s)[j] => i = j
    <2>1. Head(s) \notin Range(Tail(s))
      <3>1. SUFFICES ASSUME NEW i \in DOMAIN Tail(s), Tail(s)[i] = Head(s) PROVE FALSE
        BY DEF Range
      <3>2. i + 1 = 1
        BY <1>3, <1>4, <1>6, <3>1
      <3> QED BY <3>2, <1>1
    <2>2. ASSUME NEW i \in DOMAIN Tail(s), NEW j \in DOMAIN Tail(s),
                 Tail(s)[i] = Tail(s)[j]
          PROVE  i = j
      <3>1. i + 1 = j + 1
        BY <1>3, <1>6, <2>2
      <3> QED BY <3>1, <1>1
    <2> QED BY <2>1, <2>2
  <1> QED
    BY <1>1, <1>4, <1>5, <1>6

\* The jobs that are counted are finitely many, and one more or one fewer of
\* them changes their number by one.
LEMMA CountedJobs ==
  ASSUME NEW T \in SUBSET Job, NEW k \in Job
  PROVE  /\ Cardinality(T) \in Nat
         /\ k \notin T => Cardinality(T \cup {k}) = Cardinality(T) + 1
         /\ k \in T => Cardinality(T \ {k}) = Cardinality(T) - 1
  <1>1. IsFiniteSet(T)
    BY FS_Subset, DistributorAssumption
  <1> QED
    BY <1>1, FS_CardinalityType, FS_AddElement, FS_RemoveElement
-----------------------------------------------------------------------------
(* The steps that leave the jobs in flight and the counter alone.          *)

\* Only the making of a job matters to Room when the counted jobs stay.
LEMMA FarmUnchanged ==
  ASSUME FarmInv, UNCHANGED <<farm, n_log_mon_workers>>
  PROVE  Distinct' /\ CounterIsExact'
  BY DEF FarmInv, Distinct, CounterIsExact, LogMonJobs, InFlight, HasLogMon,
         farm, Range

\* The thread takes a queue with logging or monitoring only if it may.
LEMMA GrabKeeps ==
  ASSUME FarmInv, Grab
  PROVE  FarmInv'
  <1> DEFINE k == QueueOrder[pc]
             taken == IF k \in LogMon /\ ~admitted THEN {} ELSE queue \cap {k}
  <1>1. /\ the_job' = the_job \cup taken /\ queue' = queue \ taken
        /\ pc' = pc + 1 /\ pc \in DOMAIN QueueOrder
        /\ UNCHANGED <<admitted, farm, n_log_mon_workers>>
    BY Zenon DEF Grab
  <1>2. Distinct' /\ CounterIsExact'
    BY <1>1, FarmUnchanged
  <1>3. TypeOK'
    <2>1. QueueOrder \in Seq(STRING)
      BY DistributorAssumption
    <2>2. taken \subseteq Kind
      BY DEF FarmInv, TypeOK
    <2>3. pc' \in 0..(Len(QueueOrder) + 1)
      BY <1>1, <2>1 DEF FarmInv, TypeOK
    <2> QED
      BY <1>1, <2>2, <2>3 DEF FarmInv, TypeOK, farm
  <1>4. HasLogMon(the_job') => HasLogMon(the_job) \/ admitted
    BY <1>1 DEF HasLogMon
  <1>5. HasLogMon(the_job)' = HasLogMon(the_job')
    BY DEF HasLogMon
  <1>6. pc > 0
    BY <1>1, DistributorAssumption
  <1>7. Room'
    BY <1>1, <1>4, <1>5, <1>6 DEF FarmInv, Room
  <1> QED
    BY <1>2, <1>3, <1>7 DEF FarmInv
-----------------------------------------------------------------------------
(* Giving a job out, starting it and ending it.                            *)

\* A job given out is a job more in flight, counted if it has to be.
LEMMA DispatchKeeps ==
  ASSUME FarmInv, Dispatch
  PROVE  FarmInv'
  <1>1. PICK k \in Job \ InFlight :
           /\ data' = [data EXCEPT ![k] = the_job]
           /\ job_queue' = Append(job_queue, k)
    BY DEF Dispatch
  <1>2. /\ pc = Len(QueueOrder) + 1 /\ pc' = 0
        /\ n_log_mon_workers' = n_log_mon_workers + (IF HasLogMon(the_job) THEN 1 ELSE 0)
        /\ UNCHANGED <<queue, admitted, the_job, running>>
    BY DEF Dispatch, CountIn
  <1>3. /\ pc > 0 /\ 0 \in 0..(Len(QueueOrder) + 1)
    BY <1>2, DistributorAssumption
  <1>4. Range(job_queue') = Range(job_queue) \cup {k}
    BY <1>1, RangeOfAppend DEF FarmInv, TypeOK
  <1>5. InFlight' = InFlight \cup {k}
    BY <1>2, <1>4 DEF InFlight
  <1>6. /\ data'[k] = the_job
        /\ \A l \in InFlight : data'[l] = data[l]
    <2>1. InFlight \subseteq Job
      BY DEF InFlight, FarmInv, TypeOK, Range
    <2> QED BY <1>1, <2>1 DEF FarmInv, TypeOK
  <1>7. LogMonJobs' = IF HasLogMon(the_job) THEN LogMonJobs \cup {k} ELSE LogMonJobs
    BY <1>5, <1>6 DEF LogMonJobs, HasLogMon
  <1>8. LogMonJobs \in SUBSET Job /\ k \notin LogMonJobs
    BY <1>1 DEF LogMonJobs, InFlight, FarmInv, TypeOK, Range
  <1>9. /\ Cardinality(LogMonJobs) \in Nat
        /\ Cardinality(LogMonJobs \cup {k}) = Cardinality(LogMonJobs) + 1
    BY <1>8, CountedJobs
  <1>10. CounterIsExact'
    BY <1>2, <1>7, <1>9 DEF CounterIsExact, FarmInv
  <1>11. TypeOK'
    BY <1>1, <1>2, <1>3 DEF FarmInv, TypeOK
  <1>12. Distinct'
    <2>1. Range(job_queue') \cap running' = {}
      BY <1>1, <1>2, <1>4 DEF FarmInv, Distinct, InFlight
    <2>2. ASSUME NEW i \in DOMAIN job_queue', NEW j \in DOMAIN job_queue',
                 job_queue'[i] = job_queue'[j]
          PROVE  i = j
      <3>1. /\ job_queue \in Seq(Job)
            /\ DOMAIN job_queue' = DOMAIN job_queue \cup {Len(job_queue) + 1}
            /\ \A m \in DOMAIN job_queue : job_queue'[m] = job_queue[m]
            /\ job_queue'[Len(job_queue) + 1] = k
        BY <1>1 DEF FarmInv, TypeOK
      <3>2. \A m \in DOMAIN job_queue : job_queue[m] # k
        BY <1>1 DEF InFlight, Range
      <3> QED
        BY <2>2, <3>1, <3>2 DEF FarmInv, Distinct
    <2> QED BY <2>1, <2>2 DEF Distinct
  <1>13. Room'
    BY <1>2, <1>3, DistributorAssumption DEF FarmInv, Room, TypeOK
  <1> QED
    BY <1>10, <1>11, <1>12, <1>13 DEF FarmInv

\* A job that starts is as much in flight as it was.
LEMMA StartJobKeeps ==
  ASSUME FarmInv, StartJob
  PROVE  FarmInv'
  <1>1. /\ job_queue # <<>> /\ job_queue \in Seq(Job)
        /\ running' = running \cup {Head(job_queue)}
        /\ job_queue' = Tail(job_queue)
        /\ UNCHANGED <<queue, pc, admitted, the_job, data, n_log_mon_workers>>
    BY DEF StartJob, FarmInv, TypeOK, thread
  <1>2. /\ Head(job_queue) \in Job /\ job_queue' \in Seq(Job)
        /\ Range(job_queue) = {Head(job_queue)} \cup Range(job_queue')
        /\ Head(job_queue) \notin Range(job_queue')
        /\ \A i, j \in DOMAIN job_queue' : job_queue'[i] = job_queue'[j] => i = j
    BY <1>1, HeadAndTail DEF FarmInv, Distinct
  <1>3. InFlight' = InFlight
    BY <1>1, <1>2 DEF InFlight
  <1>4. LogMonJobs' = LogMonJobs
    BY <1>1, <1>3 DEF LogMonJobs, HasLogMon
  <1>5. Distinct'
    <2>1. Range(job_queue') \cap running' = {}
      BY <1>1, <1>2 DEF FarmInv, Distinct
    <2> QED BY <1>2, <2>1 DEF Distinct
  <1>6. TypeOK'
    BY <1>1, <1>2 DEF FarmInv, TypeOK
  <1>7. CounterIsExact' /\ Room'
    BY <1>1, <1>4 DEF FarmInv, CounterIsExact, Room, HasLogMon
  <1> QED
    BY <1>5, <1>6, <1>7 DEF FarmInv

\* A job that ends is counted out if it was counted.
LEMMA LeaveKeeps ==
  ASSUME FarmInv, NEW k \in Job, Leave(k)
  PROVE  FarmInv'
  <1>1. /\ k \in running /\ running' = running \ {k}
        /\ n_log_mon_workers' = n_log_mon_workers - (IF HasLogMon(data[k]) THEN 1 ELSE 0)
        /\ UNCHANGED <<queue, pc, admitted, the_job, data, job_queue>>
    BY DEF Leave, CountOut, thread
  <1>2. k \notin Range(job_queue)
    BY <1>1 DEF FarmInv, Distinct
  <1>3. InFlight' = InFlight \ {k} /\ k \in InFlight
    BY <1>1, <1>2 DEF InFlight
  <1>4. LogMonJobs' = LogMonJobs \ {k}
    BY <1>1, <1>3 DEF LogMonJobs, HasLogMon
  <1>5. k \in LogMonJobs <=> HasLogMon(data[k])
    BY <1>3 DEF LogMonJobs
  <1>6. LogMonJobs \in SUBSET Job
    BY DEF LogMonJobs, InFlight, FarmInv, TypeOK, Range
  <1>7. /\ Cardinality(LogMonJobs) \in Nat
        /\ k \in LogMonJobs => Cardinality(LogMonJobs \ {k}) = Cardinality(LogMonJobs) - 1
        /\ k \notin LogMonJobs => LogMonJobs \ {k} = LogMonJobs
    BY <1>6, CountedJobs
  <1>8. CounterIsExact'
    <2>1. n_log_mon_workers = Cardinality(LogMonJobs)
      BY DEF FarmInv, CounterIsExact
    <2>2. CASE HasLogMon(data[k])
      <3>1. n_log_mon_workers' = Cardinality(LogMonJobs) - 1
        BY <1>1, <2>1, <2>2 DEF HasLogMon
      <3> QED
        BY <1>4, <1>5, <1>7, <2>2, <3>1 DEF CounterIsExact
    <2>3. CASE ~HasLogMon(data[k])
      <3>1. n_log_mon_workers' = Cardinality(LogMonJobs)
        BY <1>1, <1>7, <2>1, <2>3 DEF HasLogMon
      <3> QED
        BY <1>4, <1>5, <1>7, <2>3, <3>1 DEF CounterIsExact
    <2> QED BY <2>2, <2>3
  <1>9. LogMonJobs' \in SUBSET Job
    BY <1>4, <1>6
  <1>10. n_log_mon_workers' \in Nat
    BY <1>8, <1>9, CountedJobs DEF CounterIsExact
  <1>11. TypeOK'
    BY <1>1, <1>10 DEF FarmInv, TypeOK
  <1>12. Distinct'
    BY <1>1 DEF FarmInv, Distinct, Range
  <1>13. n_log_mon_workers' <= n_log_mon_workers
    BY <1>1 DEF FarmInv, TypeOK
  <1>14. Room'
    BY <1>1, <1>10, <1>13, DistributorAssumption
       DEF FarmInv, Room, TypeOK, HasLogMon
  <1> QED
    BY <1>8, <1>11, <1>12, <1>14 DEF FarmInv
-----------------------------------------------------------------------------
(* The theorems.                                                           *)

\* The distributor starts with nothing in flight.
LEMMA FarmInitially == Init => FarmInv
  <1> SUFFICES ASSUME Init PROVE FarmInv
    OBVIOUS
  <1>1. InFlight = {} /\ LogMonJobs = {}
    BY DEF Init, InFlight, LogMonJobs, Range
  <1>2. CounterIsExact
    BY <1>1, FS_EmptySet DEF CounterIsExact, Init
  <1>3. 0 \in 0..(Len(QueueOrder) + 1)
    BY DistributorAssumption
  <1>4. TypeOK
    <2>1. pc \in 0..(Len(QueueOrder) + 1)
      BY <1>3 DEF Init
    <2>2. data \in [Job -> SUBSET Kind]
      BY DEF Init
    <2>3. job_queue \in Seq(Job)
      BY DEF Init
    <2> QED
      BY <2>1, <2>2, <2>3 DEF Init, TypeOK
  <1>5. Distinct
    BY DEF Init, Distinct, Range
  <1>6. Room
    BY DistributorAssumption DEF Init, Room
  <1> QED
    BY <1>2, <1>4, <1>5, <1>6 DEF FarmInv

\* Every step keeps the invariant.
LEMMA FarmInductive == FarmInv /\ [Next]_vars => FarmInv'
  <1> SUFFICES ASSUME FarmInv, [Next]_vars PROVE FarmInv'
    OBVIOUS
  <1>1. ASSUME NEW k \in Kind, Arrive(k) PROVE FarmInv'
    <2>1. Distinct' /\ CounterIsExact'
      BY <1>1, FarmUnchanged DEF Arrive
    <2> QED
      BY <1>1, <2>1 DEF FarmInv, Arrive, TypeOK, Room, thread, farm, HasLogMon
  <1>2. CASE Check
    <2>1. Distinct' /\ CounterIsExact'
      BY <1>2, FarmUnchanged DEF Check
    <2>2. 1 \in 0..(Len(QueueOrder) + 1)
      BY DistributorAssumption
    <2>3. TypeOK'
      BY <1>2, <2>2 DEF FarmInv, Check, MayTakeLogMon, TypeOK, farm
    <2>4. Room'
      BY <1>2 DEF FarmInv, Check, MayTakeLogMon, Room, HasLogMon
    <2> QED
      BY <2>1, <2>3, <2>4 DEF FarmInv
  <1>3. CASE NothingToDo
    <2>1. Distinct' /\ CounterIsExact'
      BY <1>3, FarmUnchanged DEF NothingToDo
    <2> QED
      BY <1>3, <2>1, DistributorAssumption
         DEF FarmInv, NothingToDo, TypeOK, Room, farm
  <1>4. CASE Grab
    BY <1>4, GrabKeeps
  <1>5. CASE Dispatch
    BY <1>5, DispatchKeeps
  <1>6. CASE StartJob
    BY <1>6, StartJobKeeps
  <1>7. ASSUME NEW k \in Job, FinishJob(k) \/ FailJob(k) PROVE FarmInv'
    BY <1>7, LeaveKeeps DEF FinishJob, FailJob
  <1>8. CASE UNCHANGED vars
    <2>1. Distinct' /\ CounterIsExact'
      BY <1>8, FarmUnchanged DEF vars
    <2> QED
      BY <1>8, <2>1 DEF FarmInv, vars, thread, farm, TypeOK, Room, HasLogMon
  <1> QED
    BY <1>1, <1>2, <1>3, <1>4, <1>5, <1>6, <1>7, <1>8 DEF Next, Thread

\* The invariant that carries both theorems always holds.
LEMMA FarmAlways == Spec => []FarmInv
  BY FarmInitially, FarmInductive, PTL DEF Spec

\* The variables of the thread and of the jobs keep their types.
THEOREM FarmTypes == Spec => []TypeOK
  BY FarmAlways, PTL DEF FarmInv

\* DatabaseWorkers::Thread and the workers keep n_log_mon_workers equal to the
\* number of jobs in flight that have logging or monitoring.
THEOREM CounterStaysExact == Spec => []CounterIsExact
  BY FarmAlways, PTL DEF FarmInv

\* Jobs with logging or monitoring never number more than max_log_mon_workers,
\* though the thread tests the limit long before it counts the job.
THEOREM LogMonStaysBounded == Spec => []LogMonBounded
  <1>1. FarmInv => LogMonBounded
    BY DEF FarmInv, CounterIsExact, Room, LogMonBounded
  <1> QED
    BY <1>1, FarmAlways, PTL
=============================================================================
