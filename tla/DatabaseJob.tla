----------------------------- MODULE DatabaseJob -----------------------------
(***************************************************************************)
(* DatabaseWorkers::DatabaseJob, the writing half: one worker puts what it *)
(* was given into the database in a single transaction, step by step:      *)
(*                                                                         *)
(*   generics, logging, monitoring, rootplots, plotlyplots, writes         *)
(*                                                                         *)
(* An item the database rejects costs the transaction with everything in   *)
(* it.  The job flags the item, opens another transaction for the rest,    *)
(* commits that, and starts over: "re-run up to the point of last error    *)
(* (endpoint)".  The job struct is recycled: clear() resets some of it.    *)
(*                                                                         *)
(* An operator named Bug... is what a plausible mistake would make of the  *)
(* definition after it; nothing uses it.                                   *)
(***************************************************************************)
EXTENDS Integers, Sequences, FiniteSets

CONSTANTS
  Works,           \* what a job may be given, see Work
  UninitI, UninitJ,\* values the job struct's uninitialised members may have
  MaxErrors,       \* bounds the items the database rejects
  MaxCommitFaults, \* bounds the commits that fail
  MaxJobs          \* bounds the jobs the struct is used for

Steps == <<"generics", "logging", "monitoring", "rootplots", "plotlyplots", "writes">>
Multicast == {"logging", "monitoring", "rootplots", "plotlyplots"}
StepName == {Steps[n] : n \in DOMAIN Steps}

\* The buffers of a write batch, in the order they are inserted.
PartOrder == <<"alarms", "devconfigs", "base_configs", "runmode_configs",
               "calibrations", "rootplots", "plotlyplots">>

\* A job's work: how many batches each multicast queue has, and for each write
\* batch the number of its generic queries and the buffers that are not empty.
Part == {PartOrder[n] : n \in DOMAIN PartOrder}
WriteBatch == [generics : Nat, parts : SUBSET Part]
IsWork(w) == /\ \A s \in Multicast : w[s] \in Nat
             /\ w["writes"] \in Seq(WriteBatch)

ASSUME WorksAssumption ==
  /\ \A w \in Works : IsWork(w)
  /\ UninitI \subseteq Nat /\ UninitJ \subseteq Nat
  /\ MaxErrors \in Nat /\ MaxCommitFaults \in Nat /\ MaxJobs \in Nat

VARIABLES
  closed_tx_executes, \* does pqxx execute on a transaction already committed?
  work,        \* what the job was given
  status,      \* idle, running, finished, failed, or undefined behaviour
  at, i, j,    \* the loops: at Steps[at], row i, column j; past Steps: commit
  tx,          \* the transaction: open, closed (committed), aborted
  connected,   \* the worker's connection is up
  pending,     \* the items in the open transaction
  committed,   \* how often each item has been committed
  flagged,     \* items flagged bad: bad_logs etc., query.err, *_batch_err
  returned,    \* how often each multicast batch went back to its pool
  had_error,
  checkpoint,  \* [step, i, j]: where the last error was found
  endpoint,    \* [step, i, j]: where this iteration is to stop
  start_j,     \* checkpoint.j when the job began
  errors, commit_faults, jobs

given   == <<closed_tx_executes, work>>
loop    == <<at, i, j>>
db      == <<tx, connected, pending, committed>>
points  == <<checkpoint, endpoint>>
history == <<start_j, errors, commit_faults, jobs>>
vars == <<given, status, loop, db, flagged, returned, had_error, points, history>>

-----------------------------------------------------------------------------
(* Rows and columns.  A multicast queue has one item a row.  Both generics *)
(* and writes have one row a write batch.                                  *)

Rows(s) == IF s \in Multicast THEN work[s] ELSE Len(work["writes"])
Columns(s, r) == CASE s = "generics" -> work["writes"][r].generics
                   [] s = "writes"   -> Len(PartOrder)
                   [] OTHER          -> 1
HasItem(s, r, c) ==
  /\ r \in 1..Rows(s) /\ c \in 1..Columns(s, r)
  /\ s = "writes" => PartOrder[c] \in work["writes"][r].parts

Items ==
  {x \in UNION {UNION {{<<s, r, c>> : c \in 1..Columns(s, r)} : r \in 1..Rows(s)}
                 : s \in StepName} : HasItem(x[1], x[2], x[3])}
MulticastItems == {x \in Items : x[1] \in Multicast}

\* What the loops of step s run to; what they start a row's columns from.
LastRow(s) == IF endpoint.step = s THEN endpoint.i ELSE Rows(s)
LastColumn(s, r) == IF s = "generics" /\ endpoint.step = s THEN endpoint.j
                    ELSE Columns(s, r)
FirstColumn(s, cp) == IF s = "generics" THEN cp.j + 1 ELSE 1

Point(s, r, c) == [step |-> s, i |-> r, j |-> c]

Init ==
  /\ closed_tx_executes \in BOOLEAN
  /\ work \in Works
  /\ status = "idle"
  /\ at = 1 /\ i = 1 /\ j = 1
  /\ tx = "open" /\ connected = TRUE
  /\ pending = {}
  /\ committed = [x \in Items |-> 0]
  /\ flagged = {}
  /\ returned = [x \in MulticastItems |-> 0]
  /\ had_error = FALSE
  /\ checkpoint \in {Point(s, a, b) : s \in StepName, a \in UninitI, b \in UninitJ}
  /\ endpoint = Point("finish", 0, 0)
  /\ start_j = 0
  /\ errors = 0 /\ commit_faults = 0
  /\ jobs = 0

-----------------------------------------------------------------------------
\* clear(), which leaves the checkpoint alone.
BugEndpointKept == had_error' = FALSE /\ UNCHANGED endpoint
Clear == had_error' = FALSE /\ endpoint' = [endpoint EXCEPT !.step = "finish"]

\* The struct is cleared, filled, and its job given to some worker.  A worker
\* keeps its connection for good: with a lost one it cannot open a transaction.
\* Errors are counted anew.
Start ==
  /\ status \in {"idle", "finished", "failed"}
  /\ jobs < MaxJobs
  /\ jobs' = jobs + 1
  /\ \E w \in Works : IF jobs = 0 THEN work' = work ELSE work' = w
  /\ Clear
  /\ connected' \in {TRUE, connected}
  /\ status' = IF connected' THEN "running" ELSE "failed"
  /\ at' = 1 /\ i' = 1 /\ j' = FirstColumn("generics", checkpoint)
  /\ tx' = "open" /\ pending' = {} /\ flagged' = {}
  /\ committed' = [x \in Items' |-> 0]
  /\ returned' = [x \in MulticastItems' |-> 0]
  /\ start_j' = checkpoint.j
  /\ errors' = 0 /\ commit_faults' = 0
  /\ UNCHANGED <<closed_tx_executes, checkpoint>>

Running(s) == status = "running" /\ at \in DOMAIN Steps /\ s = Steps[at]

InRow(s) == i <= LastRow(s) /\ j <= LastColumn(s, i)

\* The loops' next index: the next column, or the next row from its beginning.
Advance(s, cp) ==
  /\ IF j < LastColumn(s, i) THEN j' = j + 1 /\ i' = i
     ELSE i' = i + 1 /\ j' = FirstColumn(s, cp)
  /\ UNCHANGED at

\* Bad queries are skipped by every later iteration.
IsBad(x) == x \in flagged

\* There is nothing at this place, or it was flagged before.
Skip(s) ==
  /\ Running(s)
  /\ i <= LastRow(s) /\ i <= Rows(s)
  /\ \/ ~InRow(s)
     \/ j <= Columns(s, i) /\ ~HasItem(s, i, j)
     \/ IsBad(<<s, i, j>>)
  /\ Advance(s, checkpoint)
  /\ UNCHANGED <<given, status, db, flagged, returned, had_error, points, history>>

\* A loop bound left by another step takes the loop past the end of its queue.
PastTheEnd(s) ==
  /\ Running(s)
  /\ i <= LastRow(s)
  /\ i > Rows(s) \/ j \in (Columns(s, i) + 1)..LastColumn(s, i)
  /\ status' = "undefined"
  /\ UNCHANGED <<given, loop, db, flagged, returned, had_error, points, history>>

\* A multicast batch goes back to its pool whether it was inserted or not.
BugNotReturned(x) == UNCHANGED returned
Return(x) == IF x \in MulticastItems
             THEN returned' = [returned EXCEPT ![x] = @ + 1]
             ELSE UNCHANGED returned

\* There is an item to insert.
Here(s) == <<s, i, j>>
ItemHere(s) == Running(s) /\ InRow(s) /\ HasItem(s, i, j) /\ ~IsBad(Here(s))

\* The database takes it.
Execute(s) ==
  /\ ItemHere(s)
  /\ \/ tx = "open" /\ pending' = pending \cup {Here(s)} /\ UNCHANGED committed
     \/ /\ tx = "closed" /\ closed_tx_executes
        /\ committed' = [committed EXCEPT ![Here(s)] = @ + 1]
        /\ UNCHANGED pending
  /\ Return(Here(s))
  /\ Advance(s, checkpoint)
  /\ UNCHANGED <<given, status, tx, connected, flagged, had_error, points, history>>

\* Where an item failed: row and column of a generic query, the row after that
\* of a write buffer, the row before that of a multicast batch.
BugBeforeIt(s) == [checkpoint EXCEPT !.i = i, !.j = j - 2]
FoundAt(s) ==
  CASE s = "generics" -> [checkpoint EXCEPT !.i = i, !.j = j - 1]
    [] s = "writes"   -> [checkpoint EXCEPT !.i = i]
    [] OTHER          -> [checkpoint EXCEPT !.i = i - 1]

\* There is no transaction it could be executed in.
NoTx == tx = "aborted" \/ (tx = "closed" /\ ~closed_tx_executes)

\* The job goes on in a new transaction.
NewTx == tx' = "open" /\ pending' = {}

\* The database does not take it, or cannot.
Reject(s) ==
  /\ ItemHere(s)
  /\ IF NoTx THEN UNCHANGED <<errors, connected>>
     ELSE errors < MaxErrors /\ errors' = errors + 1 /\ connected' \in {connected, FALSE}
  /\ flagged' = flagged \cup {Here(s)}
  /\ had_error' = TRUE
  /\ checkpoint' = FoundAt(s)
  /\ IF connected'
     THEN NewTx /\ Return(Here(s)) /\ Advance(s, checkpoint') /\ UNCHANGED status
     ELSE /\ status' = "failed"          \* opening the new transaction throws
          /\ UNCHANGED <<tx, pending, returned, loop>>
  /\ UNCHANGED <<given, committed, endpoint, start_j, commit_faults, jobs>>

\* After a step without error so far: this is where to stop, or the checkpoint.
BugCheckpointAlways(next) == checkpoint' = [checkpoint EXCEPT !.step = next]
SetCheckpoint(next) ==
  IF had_error THEN UNCHANGED checkpoint
  ELSE checkpoint' = [checkpoint EXCEPT !.step = next]

StepDone(s) ==
  /\ Running(s)
  /\ i > LastRow(s)
  /\ i' = 1 /\ j' = 1
  /\ IF s = "writes"
     THEN at' = at + 1 /\ UNCHANGED checkpoint
     ELSE LET next == Steps[at + 1] IN
          IF ~had_error /\ endpoint.step = next
          THEN at' = Len(Steps) + 1 /\ UNCHANGED checkpoint    \* goto commitit
          ELSE at' = at + 1 /\ SetCheckpoint(next)
  /\ UNCHANGED <<given, status, db, flagged, returned, had_error, endpoint, history>>

-----------------------------------------------------------------------------
AtCommit == status = "running" /\ at = Len(Steps) + 1

\* The end of an iteration: the job is done, or it starts over.
BugErrorKept == UNCHANGED had_error
ForgetError == had_error' = FALSE

IterationEnds(error) ==
  IF error
  THEN /\ ForgetError
       /\ at' = 1 /\ i' = 1 /\ j' = FirstColumn("generics", checkpoint)
       /\ UNCHANGED status
  ELSE status' = "finished" /\ UNCHANGED <<loop, had_error>>

\* commit() of a transaction committed before is accepted and does nothing.
Commit ==
  /\ AtCommit
  /\ tx \in {"open", "closed"}
  /\ committed' = [x \in Items |-> committed[x] + (IF x \in pending THEN 1 ELSE 0)]
  /\ pending' = {} /\ tx' = "closed"
  /\ endpoint' = checkpoint
  /\ IterationEnds(had_error)
  /\ UNCHANGED <<given, connected, flagged, returned, checkpoint, history>>

\* Nothing was committed, perhaps because the connection is gone.
CommitFails ==
  /\ AtCommit
  /\ IF tx = "aborted" THEN UNCHANGED <<commit_faults, connected>>
     ELSE /\ tx = "open" /\ commit_faults < MaxCommitFaults
          /\ commit_faults' = commit_faults + 1
          /\ connected' \in {TRUE, FALSE}
  /\ tx' = "aborted" /\ pending' = {}
  /\ IterationEnds(TRUE)
  /\ UNCHANGED <<given, committed, flagged, returned, points, start_j, errors, jobs>>

\* pqxx cannot tell whether it was: the job throws, and is failed.
CommitInDoubt ==
  /\ AtCommit
  /\ tx = "open"
  /\ commit_faults < MaxCommitFaults
  /\ commit_faults' = commit_faults + 1
  /\ connected' = FALSE
  /\ \/ committed' = [x \in Items |-> committed[x] + (IF x \in pending THEN 1 ELSE 0)]
     \/ UNCHANGED committed
  /\ pending' = {} /\ tx' = "aborted"
  /\ status' = "failed"
  /\ UNCHANGED <<given, loop, flagged, returned, had_error, points, start_j, errors, jobs>>

JobNext ==
  \/ \E s \in StepName :
       Skip(s) \/ PastTheEnd(s) \/ Execute(s) \/ Reject(s) \/ StepDone(s)
  \/ Commit \/ CommitFails \/ CommitInDoubt

Next == Start \/ JobNext

Spec == Init /\ [][Next]_vars

\* A started job runs on: its worker thread is scheduled.
FairSpec == Spec /\ WF_vars(JobNext)

=============================================================================
