# The middleman of ToolDAQ ServicesBackend in TLA+

The middleman (`src/UserTools`, `src/DataModel`) stands between the devices of a
detector and a PostgreSQL database. Clients send queries over ZeroMQ and log and
monitoring messages over UDP multicast; the middleman batches them, has workers put
them into the database, and answers the queries. It is one process of some dozen
threads and four pools of workers that pass raw pointers to each other through
mutex-protected vectors. No pointer is counted, no test covers a batch's life, and
much of the code is about what to do when one item of many goes wrong. That is what
these modules are about.

Contents: [the system](#the-system), [the modules](#the-modules),
[the runs](#the-runs), [what the code does differently](#where-the-code-and-its-comments-differ),
[the proofs](#the-proofs), [what is left out](#what-is-not-modelled),
[the plan](#the-plan).

## The system

| component | state it keeps | operations | talks to |
|---|---|---|---|
| `ReadQueryReceiverReplySender` | `in_local_queue`, `make_new`, `out_local_queue`, `out_i` | loop body: transfer, poll, receive, reply, fetch the next answered batch | ROUTER socket, `read_msg_queue`, `query_replies`, `querybatch_pool` |
| `WriteQueryReceiver` | the same without the reply part | transfer, poll, receive | SUB socket, `write_msg_queue`, `querybatch_pool` |
| `ReadWorkers`, `WriteWorkers` | `local_msg_queue`; a job's batch | swap the queue and make a job of each batch; a job decompresses, sorts by topic into one buffer a table; a failed job | `*_msg_queue` to `*_query_queue` |
| `DatabaseWorkers`, thread | `n_log_mon_workers`, the job being made | check the limit, gather six queues, queue the job | all `*_query_queue`s, the worker farm |
| `DatabaseWorkers`, job | checkpoint, endpoint, flagged items, transaction, pipeline | read half; write half with its retry loop; `DatabaseJobFail` | database, `query_results`, `multicast_batch_pool` |
| `ResultWorkers` | a job's batch | deal out rows, version numbers and errors to the queries | `query_results` to `query_replies` |
| `MulticastReceiverSender` (two) | `in_local_queue`, `out_local_queue`, `out_i` | transfer, poll, receive, send, fetch; restart by Execute | UDP, `in_multicast_msg_queue`, `out_*_msg_queue`, `multicast_buffer_pool` |
| `MulticastWorkers` | `local_msg_queue`; a job's four batches | make jobs; sort by topic; push a batch a table | `in_multicast_msg_queue` to `log_`, `mon_`, `*plot_query_queue` |
| `DataModel`, `QueryBatch`, `ZmqQuery` | the queues and pools; a batch's queries, buffers, version numbers, errors | `reset`, pool get and add | everything |
| `SocketManager` | the managed sockets: two mutexes, a request flag and a map of connections each; the list of clients | update all sockets; `ClearClients`, `DisconnectAllClients`, `DisconnectClient`; list the clients | the receivers' threads, slow control |
| configuration cache | `cached_configs`, the ids it was made for | `CacheConfigs`, from slow control; a lookup a cached query | slow control, `ResultWorkers` |
| `JobManager` | `thread_cap`, `num_threads` | sizes the worker pools | every tool |
| `Monitoring` | `monitoring_variables` | publishes everybody's statistics | `out_mon_msg_queue`, every tool's Initialise and Finalise |
| run control: `GracefulStop`, the tool chain, `run_middleman.sh` | `gotStopSignal`, the quit file | signal, button, commands to the main thread, restarts | every tool |
| small tools, database scripts | - | settings, schema | - |

What is hard here, and what must hold nevertheless:

- **Ownership by convention.** A `QueryBatch*` moves through nine containers of
  seven tools. It must be in one place at a time, be recycled only when its answers
  are gone, and be empty then.
- **Partial failure.** A receive, a send, a decompression, one insert of twenty, a
  whole job or a commit may fail. What else is lost with it, who is told, and does
  what the code does afterwards repeat anything?
- **Recycled objects.** Batches, job structs and buffers keep what their last use
  left unless somebody clears it, often another tool.
- **Correspondence by order.** A version number finds its query, and a pipeline
  result its query, only by both being in the same order.
- **Checks apart from their effects.** The limit on log jobs is tested long before
  the counter it is compared with is incremented, and workers decrement it meanwhile.
- **Restarts of one tool** clear queues that others use too, and delete a socket
  that others may have found in the map.
- **A mutex its owner hardly ever lets go.** A receiver polls its socket under the
  socket's mutex. Whoever else wants it raises a flag that the receiver honours.
- **Locks over several tools**: what is held while another is waited for.
- **Maps without locks**: the configuration cache is replaced in one thread while
  others look things up in it.

`PROJECT.json` lists every such place by line, with the properties that cover it or
the reason why none does.

## The modules

```
QueryService          <-- refined by --  QueryPipeline --- QueryPipelineProps --- MCQueryPipeline
                                           |   '- QueryPipelineProofs, QueryRepliesProofs
  inside a write job:  WriteBatch, DatabaseJob - DatabaseJobProps - MCDatabaseJob,
                                                         DatabaseJobProofs
  inside a read job:   ReadJob
  and its answers:     ReadAnswer extends ReadJob
  a batch of either:   BatchAnswers = ReadAnswer + WriteBatch, MCBatchAnswers,
                                                         BatchAnswersProofs
  who gets which job:  DbDistributor - MCDbDistributor, DbDistributorProofs
  the other input:     MulticastPath - MCMulticastPath, MulticastPathProofs
  the sockets:         SocketSharing - MCSocketSharing, SocketSharingProofs
  the whole program:   ToolChain - MCToolChain, ToolChainProofs
```

The pipeline says where batches are; the modules of the second block open up one of
its steps each, and the last two are about the threads around it. In all of them an
operator `Bug...` precedes the definition it is a plausible mistake for. Nothing
refers to it; putting it in the place of the definition makes the properties named in
`PROJECT.json` under "mutants" fail.

**QueryPipeline** is the whole way of a query. `held[s]` is the sequence of batch
pointers in container `s`; `queries[b]` is `QueryBatch::queries`, a query being its
own name or `Partial`, a message not received whole. `make_new`, `pc`, `out_i` are
the receivers' and the sender's locals. One action is one critical section together
with the private work around it: `Transfer`, `Receive`, `ReceiveBad`, ... for the
loop bodies, a `Distribute...` for each distributor thread's swap, one action for a
job's hand-over, one for its fail handler (its batches go to `leaked`, since no
pointer to them is left). A receiver whose poll or receive ends with `ETERM` may have
stopped (`running`); `Execute` then restarts it, and `Initialise` overwrites the
pointers to the batch it was filling and, of the read one, to the batch it was
answering, which leaks both (`Restart`). ETERM is what ZeroMQ reports of a terminated
context; that a new socket can be made afterwards is what the code counts on, and the
model with it. An `Initialise` that cannot create the thread does to the batches what
one does whose thread stops at its first poll, and is that restart here, as it is in
`SocketSharing`; `MulticastPath` and `ToolChain` have it as an action of its own.
`ResultJob` asks `queries.front()` also of a batch without queries, which is
undefined: the model takes it that the program dies, which a behaviour that stops there
stands for, or that its loops do nothing. `arrived`, `done`, `sent`, `dropped` are histories.
A query's content, the socket parts and the answer are left out.

**QueryService** is what a client may rely on: accepted, executed and then answered
once; or lost and then never answered. `QueryPipelineProps` has the refinement
mapping `statusBar`.

**DatabaseJob** is the write half of `DatabaseJob`, the retry loop with all its
`goto`s. An item is `<<step, row, column>>`. `at, i, j` are the loops' positions,
`checkpoint` and `endpoint` the members of those names, `flagged` the `bad_*` sets
and the errors of queries and buffers, `tx`, `pending`, `committed` the transaction.
The struct is used `MaxJobs` times and keeps what `clear()` does not reset; members
no constructor sets start with any of `UninitI`, `UninitJ`. Whether libpqxx executes
on a transaction that was committed is not in this repository, so
`closed_tx_executes` is either, chosen once per behaviour; every run covers both.

**ReadJob** is the read half: push all, pull in turn, note `last_i` on an error,
push and pull the rest. The pipeline is external and modelled from its use: results
come in order of insertion and the first error ends it.

**ReadAnswer** continues a read job in `ResultWorkers::ResultJob`. A query for a
cached configuration is looked up with `count()` and then with `operator[]`, two
actions (`CountConfig`, `TakeConfig`), and `CacheConfigs` may replace the map at any
time, also between the two; what a lookup in a map that is being replaced does is
`LookupUndefined`. An entry of the map says by which call it was made, and `{}` is
the empty configuration `operator[]` leaves behind.

**WriteBatch** follows the content of one write batch: messages by topic into
buffers, inserts that return a version number a row, numbers dealt out again. A row
is `<<use of the batch, index>>`, so that anything left from the batch's last use is
told apart. `pc = "undefined"` is what happens when an unknown topic comes before
any known one: `out_buffer` is then a pointer of the struct's previous job.

**BatchAnswers** puts the two kinds of batch into one specification: `ResultJob`
decides by the first query what a batch is of, and the batch that is not there does
nothing.

**DbDistributor** is the thread that makes database jobs, and the farm. Of a queue
only its being empty matters. `pc` is the queue the thread is at, which keeps the
check of the limit and the counting apart as in the code.

**MulticastPath** is the two multicast receivers, their restart by `Execute`
(`FinaliseIn`, `FinaliseOut`, `Initialise` are separate, since each has its own
lock), the distributor and the jobs that sort messages by topic. A buffer's content
is a sequence of messages. A batch, one string of rows in the code, is the part of a
buffer that is of one topic: a function from the places its messages have there, which
says what a row is and in which order the rows are. A buffer that no container holds is a new object when it
is next taken: `GetNew` picks from the pool first and else any that is not in use.
What is sent out is numbered downwards, by how many were still to come.

**SocketSharing** has the three kinds of threads that use a `ManagedSocket`: its
receiver (`GiveWay`, `ReceiverLock`, `ReceiverUnlock` round its loop), the manager's
thread and slow control's (a requester is `at` a step of its walk over the sockets:
`TryLock`, and if that fails `Ask`, `Lock`, `Unask`; then `LockConnections` and what
it came for), and the main thread, which restarts a receiver that stopped and lists
the clients. `connections` is the map the program keeps and `linked` what the socket
is really connected to. What `UpdateConnections` of the external library does is
taken from its use: it adds who is new, and nobody else.

**ToolChain** has the main thread's way through the tools of
`configfiles/middleman/ToolsConfig`, the thread of `Monitoring`, the requests to stop
and the script that starts the program again. Of the tools it has what they do to
each other: entering and leaving `monitoring_variables`, being restarted, and the
locks held together. `Initialise` may fail (`InitialiseFails`): in a multicast receiver
at its socket, before it enters the map, and in any tool with a thread when that is not
created. Nobody acts on it: `Execute` ignores the result, and at the start the tool
chain goes on too, as `error_level` is 0. The tool's thread then does not run
(`stopped`), which its next `Execute` finds. That the framework calls the tools in order and takes commands
between two rounds is taken from its use.

`PROJECT.json` gives for each definition the lines it stands for.

## The runs

Bounds are chosen so that every action happens, and so that the situations named
happen together.

| run | bounds | result |
|---|---|---|
| `QueryPipeline_safety` | 5 batches, 2 reads and 1 write, buffers of 2, 2 database jobs, 1 fault; symmetry | holds, 190 thousand states |
| `QueryPipeline_faults` | 5 batches, 1 read, 1 write, 1 database job, 1 fault; no symmetry | holds, 120 thousand states |
| `DbDistributor_check` | 3 jobs, 2 workers, limit 1, queues log, mon, write | holds, 428 thousand states |
| `DatabaseJob_safety` | 7 kinds of work, 2 rejected items, 1 failed commit, struct used twice, uninitialised members 0, 1, 3 | holds, 268 thousand states |
| `DatabaseJob_rerun`, `_generics` | as above with 1 rejected item | violated, see below |
| `BatchAnswers_safety` | reads: up to 4 of 4 kinds, 2 devices, 2 swaps; writes: up to 3 of 4 topics, unknown and bad ones, 1 failed insert, 2 uses | holds, 540 thousand states |
| `WriteBatch_badmessage` | 1 use, no failed insert | violated |
| `ReadJob_resubmitted` | up to 3 queries | violated |
| `MulticastPath_check` | 4 loads, 6 buffers, buffer size 1, 1 fault | holds, 229 thousand states |
| `SocketSharing_check` | 1 socket, 2 clients, 1 of them from the start, 1 call of slow control, 1 stop | holds, 233 thousand states |
| `ToolChain_check` | 8 tools, at most 2 stopped at a time, 2 requests | holds, 76 thousand states |

**QueryPipeline.** The safety run asks: has a batch ever two owners (`OneOwner`),
is it recycled clean (`PoolIsClean`), can a half-received message get out
(`NoPartialDownstream`), is a query answered twice (`AtMostOneReply`),
may `ResultJob` rely on a batch's first query to say what the rest are
(`FrontTellsAll`: reads and writes never mix, and only after a failed receive is
there none; then there can be none, and what `front()` does is undefined)? `ImplementsService` adds that none is answered before the database is
done with it. Two reads and buffers of
two make a batch with two answers, an incomplete second entry, and a batch recycled
while another is answered possible; five batches let one be in each kind of place
while the receivers hold theirs. Faults are counted together, so that one fault
falls at every possible point; what two faults do is not explored. A fault may stop
the receiver, so the restart comes after every history there is. The fault run says
every query that arrives is answered or accounted for as lost: in a failed job, in a
reply that was not sent, in the batches a restart forgets. There the batches are
created in a fixed order (`InOrder`), since which one is new only names it.

**DatabaseJob.** The safety run states exactly how much the retry loop delivers.
Nothing goes wrong: everything committed once, nothing flagged (`FaultFreeOnce`,
given a struct whose `checkpoint_j` was 0). One item rejected: lost are the item
and those before it in its own step, and no others (`LossIsWithinTheStep`). One
failed commit: the first item is blamed and lost, all others are committed
(`CommitFaultCostsOne`). Multicast batches return to their pool, flagged or not
(`BuffersComeBack`; after an error they may do so more than once, which happens in the
model and is forbidden by no property), and the loop ends (`JobEnds`). Premises are part of the finding: with generic queries
errors in two steps can happen in one iteration and a stale `checkpoint_j` repeats
or skips some; with `closed_tx_executes` false the first item after an error is
blamed too; and when a commit fails with nothing left to blame, the loop commits an
aborted transaction for ever. The seven works have two items of a kind before and
after another kind, two buffers in a write batch, generics in two batches, an empty
job, and a job with something of everything.

**BatchAnswers.** Of a batch of writes: each client is given the number of its own
row, whatever topics are mixed and whichever inserts fail, as long as its messages
are clean and a failed insert returned nothing (`OwnVersion`), and nothing of the
batch's last use is left (`NothingFromBefore`). Three queries are two of one topic
around one of another. Of a batch of reads: never another query's rows
(`ResultIsOwn`); every query is answered, in however many rounds
(`EveryReadIsAnswered`); and a device that is told of success is given a
configuration (`CachedAnswerIsWhole`), unless a swap ever came between the two looks
of a lookup. That exception is the ghost `crossed`: after such a crossing
`operator[]` leaves an empty configuration in the new map, which every later lookup
then serves as a success. Four queries make three rounds.

**DbDistributor.** `CounterIsExact` and `LogMonBounded`: jobs with logging or
monitoring are counted right, whether they end or fail, and are never more than
allowed, though check and count are six critical sections apart: only one thread
increments. `OthersAreDone`: with all such jobs stuck, others still run, which is
what the limit is for. `LogMonTaken`: if no job is stuck for good, they are taken.
With two workers and a limit of one, there is exactly one worker to spare.

**MulticastPath.** `BuffersHaveOneOwner`, `WorkersKeepMessages` and `InsertedOnce`
through restarts that clear the queue both receivers use and jobs that fail halfway;
`TypeOK` bounds a receiver's buffer; `SentInOrder`: a restart in the middle of sending repeats
nothing; `EveryMessageInserted` if there is no fault. The four loads: both receivers
at work; three messages, one of them bad, for buffers of one; two topics in one
buffer; two messages to send besides. Six buffers are one more than can be in use.

**SocketSharing.** `SocketIsSafe` has three parts: a socket is used by one thread at
a time, which is ZeroMQ's rule; no socket that a restart deleted is touched, whoever
found it in the map before; and the map of connections names nobody the socket is not
connected to, because disconnecting such a one throws. `RequestIsServed` is what the
flag is for. It says so of a standing request: two requesters share the flag, the
first to get the socket resets it for both, and the other may then wait for as long
as the receiver is lucky. `ClientsAreListed`: slow control's list is complete in the
end, with two exceptions that can happen, a list that `ClearClients` empties while it
is being made (`torn`) and a requester that starves. One socket is enough for the
locks, which are a socket's own; a walk over two differs only in what is done between
them, and the proof of `SocketIsSafe` is for any number.

**ToolChain.** `StopIsHeeded`: a signal ends the program, and the button the script.
Two things excuse: a command that failed to be sent is `lost`, since `GracefulStop`
forgets the signal all the same; and `Inverted`, where `Finalise` of the monitoring
receiver holds the out queue's lock and waits for that of the statistics, while
`Monitoring` has this one and waits for the other, for ever. The inversion does happen;
what the run adds is that it is the only standstill.
`StoppedIsTriedAgain`: a tool whose thread does not run, because it stopped or was never
created, comes to its `Initialise`, and after a failure again, until it runs or the
program ends. That it ever runs is not said: `Initialise` may fail each time, and
nothing gives up then. Stops and failures are not counted, only how many tools are
stopped at one time. Two is what it takes for a thread to stop while another's tool is
being restarted, and two requests are needed for a signal and the button to meet. Tools
whose thread never stops itself do the same here, so `multicastWorkers` stands for all
of them but `monitoring`.

**Deadlock** is checked in `QueryPipeline_safety`, `QueryPipeline_faults` and
`DbDistributor_check`. `SocketSharing` has bounded calls and stops, after which
nothing need happen, and in `ToolChain` the program may rightly be over, or stand still
by the inversion above; their liveness properties say when it may. The other models are of finite work and
stop when it is done.

**Fairness.** Every thread's loop body and every pool's workers are scheduled by the
operating system: weak fairness of each thread's next step. Strong fairness only
where a thread's action becomes possible again and again as it goes round: a
transfer, whose period passes again and again, and a message or peer that is ready
at some poll. In `DbDistributor` no fairness is assumed for jobs with logging and
monitoring, on purpose. No fairness is assumed for arrivals and faults.
In `SocketSharing` no mutex is fair: who waits for one is only sure of it if nobody
else is after it infinitely often, which is so since the manager sleeps for a second
between updates and the main thread between rounds (`Proceeds`, `MainStep`, strong).
A receiver competes for its socket's mutex all the time, so a requester is only sure
of it while its flag stands and the receiver, having seen it, is out of the way. In
`ToolChain` the main thread is strongly fair, as the publisher has the lock of the
statistics only for a moment of each of its rounds. In `BatchAnswers` only the
workers are fair, not slow control.

## Where the code and its comments differ

Four runs check what a comment says, and find it violated.

1. `DatabaseJob_rerun`. After a rejected item the job is to "re-run up to the point
   of last error (endpoint)" (`DatabaseWorkers.cpp:966`). The iteration stops
   *before* the step that error was in, so the earlier items of that step, lost with
   the transaction, are not inserted again and not reported.
2. `DatabaseJob_generics`. `checkpoint_j` is neither initialised nor reset by
   `clear()`; the loop over generic queries starts there. After a job whose generic
   query failed, the first ones of a later job are skipped and reported as done.
3. `WriteBatch_badmessage`. A message that did not decompress is left out of its
   topic's buffer, but `ResultJob` goes by topic: its client is told of success and
   takes a version number, so that every later one of the topic is off by one.
4. `ReadJob_resubmitted`. In the rounds after an error the skip test looks at
   `queries[i]` where the rest of the loop uses `queries[i+last_i]`: a query after a bad
   one, good or bad itself, may be left with neither result nor error.

The models show more that no comment contradicts: the retry loop that never ends
(above); an aborted transaction that is kept after a failed commit and so costs an
innocent item; generic queries repeated after an error in one of them; batches of
failed jobs that are forgotten without an answer to their clients; multicast buffers
of one receiver dropped when the other is restarted, or pooled twice after an error; a
batch without queries after a failed receive; a restart whose failure nobody
acts on; a requester whose flag another has reset; the exceptions named with
`CachedAnswerIsWhole`, `ClientsAreListed` and `StopIsHeeded` above. The properties
hold but for these and do not catch them; `PROJECT.json` says so with each hazard.

## The proofs

TLAPS checks these for every value of the constants, from the assumptions named in
the modules (`ConstantsAssumption`, `MaxQueriesAssumption`, `DistributorAssumption`,
`SocketAssumption`, `MulticastAssumption`, `WorksAssumption`, `WriteAssumption`,
`ReadAnswerAssumption`, `ToolChainAssumption`). With them every invariant and
every action property of a passing run is a theorem, and so is the refinement.

| module | theorem | says |
|---|---|---|
| QueryPipelineProofs | `BatchesHaveOneOwner`, `StagesKeepShape`, `BatchesAreKept` | `OneOwner`, `StageShape`, `NoBatchForgotten` |
| QueryPipelineProofs | `TypesAreKept`, `NoPartialLeaves` | `TypeOK`, `NoPartialDownstream` |
| QueryRepliesProofs | `PoolStaysClean`, `RepliesAreSentOnce`, `FrontsTellAll` | `PoolIsClean`, `AtMostOneReply`, `FrontTellsAll` |
| QueryRepliesProofs | `PipelineImplementsService` | the refinement `ImplementsService` of `QueryService` |
| DatabaseJobProofs | `JobTypeCorrect`, `OnceWithoutFaults`, `BatchesGoBack` | `TypeOK`, `FaultFreeOnce`, `BuffersComeBack` |
| DatabaseJobProofs | `OneRejectionCostsItsStep`, `FailedCommitCostsTheFirst` | `LossIsWithinTheStep`, `CommitFaultCostsOne` |
| MulticastPathProofs | `PathTypeCorrect`, `BuffersAreOwnedOnce`, `InsertedOnceEach` | `TypeOK`, `BuffersHaveOneOwner`, `InsertedOnce` |
| MulticastPathProofs | `SendingKeepsOrder`, `WorkersLoseNothing` | `SentInOrder`, the action property `WorkersKeepMessages` |
| BatchAnswersProofs | `ResultsAreOwn`, `TypesAreKept` (of `ReadJob`) | `ResultIsOwn`, `TypeOK` |
| BatchAnswersProofs | `BatchTypeCorrect`, `AnsweredResultsAreOwn`, `CachedAnswersAreWhole` | `BatchTypeOK`, `ResultIsOwn`, `CachedAnswerIsWhole` |
| BatchAnswersProofs | `VersionsAreOwn`, `UsesAreApart` | `OwnVersion`, `NothingFromBefore` |
| ToolChainProofs | `ChainTypeCorrect` | `TypeOK` |
| DbDistributorProofs | `FarmTypes`, `CounterStaysExact`, `LogMonStaysBounded` | `TypeOK`, `CounterIsExact`, `LogMonBounded` |
| SocketSharingProofs | `SocketTypes`, `SocketsAreSafe` | `TypeOK`, `SocketIsSafe` |

*Ownership.* `BatchInv` is the types of `held` and `db_phase` with `OneOwner` and
`StageShape`. Ownership alone is not inductive: a receiver overwrites its local
batch, and a database job is given batches, without looking whether one is there, so
that the shape is needed for nothing to be lost or doubled. The steps are few once
seen as moves: lemmas say that moving all of a container behind another
(`MoveAllOwned`), moving one of its pointers (`MoveOneOwned`) and creating a batch
(`NewBatchOwned`) keep ownership and forget nothing, and each action is one or two
of them; a restart is the most, moving both private batches behind the leaked ones
and then taking a batch (`RestartBatches`).

*Messages.* The second half of `QueryPipelineProofs` builds on ownership: an incomplete message is only
ever last in its receiver's batch, and only while `make_new` is false, unless a restart
has forgotten that batch (`Leaked`), after which nobody gets it any more
(`LeakedStays`). For it to stay there no other tool may have that batch, which is why
`OneOwner` comes first.

*Replies.* `QueryRepliesProofs` builds on both. A batch gets into the pool from the
sender alone, which empties it first (`FetchKeepsPool`), and who fills a batch owns it,
so that none is filled in the pool. At most one reply is not inductive by itself:
`RepliesInv` adds that a query is in one place of one batch (`InOnePlace`), that what is
in a batch or was answered has been received (`AllArrived`), so that what is received
now is nowhere yet, and that the place of an answered query is behind `out_i` in the
batch being answered, or in a batch a restart has forgotten (`PastIsUsed`). That the
sender starts a fetched batch from its first query is then right because it owned
another batch, or none, until then. The model gives each message that arrives an
identity of its own: a client that sends the same text twice has sent two queries.

*The service.* `PipelineImplementsService` maps every step of the pipeline to a step of
`QueryService` or to none. What it takes besides the reply invariant is `DoneInv`: a query
on its way back was done by the database. The mapping takes a query for lost when it is in
`leaked` or was dropped, so that most steps map to none because they move batches between
stages that look alike from outside; the steps that do not are a receive, a job's end, its
failure, a reply, a dropped reply, and a restart, which loses all queries of two batches at
once.

*The first query of a batch.* `FrontTellsAll` needs the batches to be `Uniform` wherever
they are, since a recycled one goes to either receiver; that a receiver's batch is of its
own kind, which holds when it is new because the pool is clean; and that a batch can only
be empty after a bad message (`FrontInv`).

*Database jobs.* The proofs follow the loops. An item is `Done` when the loops are past it:
going on passes exactly the place they are at (`Passing`), a step that ends has passed its
whole queue (`EndOfStep`), and a job that commits has passed everything (`AllDone`), unless
`endpoint` cut the iteration short. `CleanInv` says that, with nothing wrong so far, what
is pending is what is done; `ReturnInv` that the first iteration returns each multicast
batch it passes, flagged or not, which later ones do not undo. With one fault
(`RedoInv`) a job goes through phases, and each says exactly which items are committed:
`Aborted`, after a failed commit, with nothing done; `Rest(y)`, after `y` was rejected or
blamed, with what follows `y` pending; `Again(y)`, the iteration that ends before the step
of `y`, with what follows `y` committed, and of the earlier steps what is done. In
`Aborted` the first item there is must be the one that is blamed. No item is tried in
`Again` after a failed commit, as none comes before the first; so `closed_tx_executes`
matters only for a rejected item. The premises are those of the properties; the works, the
uses of the struct before and the bounds of the runs are arbitrary.

*Multicast.* `OwnerInv`: a buffer is one receiver's, or waits in one place of one queue, or
is sorted, or is free; a restart clears one queue only and so keeps that. `TypeInv` adds
the room for one message more that a polling receiver has. `PlaceInv` follows a message:
it comes in once and is then in one place of one buffer (`InOnce`); what waits or is
inserted is in no buffer that is yet to be sorted and no batch that is yet to be handed on
(`NotHandedOn`); a job's batches are parts of its buffer and gone when it is done
(`PartsOfBuffer`), which is why a buffer may be pooled without being emptied. For
`WorkersKeepMessages` being at the workers is restated buffer by buffer (`At`). `OutInv`
holds of what is sent on: everything sent is older than what is in the local queue past
`out_i`, that than what is in the queue, and that than what is to come.

*A batch of reads.* A result is given to the query whose id was pulled: the invariant
(`ReadInv`) ties `ids` and `last_i` to the position. Its answers add what `count()` has
found: it is still in the map, and not empty, when `operator[]` comes to it, unless a swap
came between (`StillThere`), so that no empty configuration is made before the first such
crossing, nor served.

*A batch of writes.* `OrderInv` is the correspondence by order. The rows of a topic are of
its queries, all of them, in their order (`RowsInOrder`). An insert that worked returned
the rows there are, and until it is reached nothing (`Returned`). While `ResultJob` goes
through the queries, a row is before `next_version` of its topic exactly if its query is
one that was answered (`NextIsNext`). So when a query's turn comes, its row is the first
that is not before `next_version`, which makes it the one at it (`VersionIsOwn`); the
others stay where they are because their queries are of another topic. A message that does
not decompress or has an unknown topic breaks `RowsInOrder`, which is why the property has
the premise `Clean`: the run `WriteBatch_badmessage` shows what follows. That all rows and
numbers are of the present use (`OfThisUse`) needs no such premise.

*The tool chain.* That the publisher never has more entries ahead of it than are in the map
of statistics needs `Idle`: a publisher that does not hold the map's lock has none ahead,
so a tool that leaves the map under that lock takes none from it. A signal before
the handler is set kills the program in the middle of it, after which nothing else happens
until the script starts anew.

*Distributor.* `FarmInv` is `TypeOK`, no job twice in the farm (`Distinct`), the
exact counter, and `Room`: from the check until the dispatch there is room for one
more job if the thread was let in, because workers only decrement. `Room` is the
strengthening `LogMonBounded` needs.

*Sockets.* That a socket is used by one thread follows from its mutex once it is known
that a requester keeps it as long as it calls the socket (`HoldersHold`). That no
deleted socket is touched follows from the lock of the map: who walks over the sockets
holds it shared and walks over what is in the map (`Readers`), a receiver's
thread is in its loop only while its socket is there (`ReceiversThere`), is over while its
tool is being restarted, and the socket is out of the map before it is deleted
(`Restarting`). The run has one socket; the theorem any number, with any
number of clients, calls and restarts.

Only model-checked are the liveness properties: `EveryQuerySettled`, `OthersAreDone`,
`LogMonTaken`, `JobEnds`, `EveryMessageInserted`, `EveryReadIsAnswered`,
`RequestIsServed`, `ClientsAreListed`, `StopIsHeeded` and `StoppedIsTriedAgain`.
Out of the prover's reach, and left to TLC:
liveness under fairness, anything with `ENABLED`, and what needs induction over data. Where
a model would have needed such an induction, as for the rows of a multicast batch, it is
stated with functions instead.

## What is not modelled

Nearly nine tenths of the repository's C and C++ are one vendored file and its header,
`DataModel/zstd.c` (55 of 63 thousand lines); it is called to decompress a message
and to compress an answer, which either succeeds or fails. Of the some eight thousand
lines of the project's own code, and its script, the modules stand for about 2,900.
The rest:

- *Content*: SQL, JSON, compression, formatting of answers, statistics, logging
  (`MLogger`, whose shared buffer has no lock), alerts, set-up of sockets.
- *Standby and promotion*, whose calls are commented out, as is `StopQuitFile` in the
  list of tools.
- *`num_threads`*: most of the counting is done by the framework's
  `WorkerPoolManager`, which is not in the repository.
- *Widths*: `last_i` is a `uint16_t` and the bad-item sets hold `int16_t`. No bound
  on what a job takes is in the code, so this would need tens of thousands of items.
- *Batch strings of multicast*: their pool, and reads of them after hand-over.
- *External code*: libpqxx, ZeroMQ, the framework's pools, threads and service
  discovery are modelled from their use. A `Pool` gives an object nobody else was
  given; a job either runs or has its fail function called; `KillThread` joins.
  Whether the number of connections is read before or after `UpdateConnections`
  changes it is left open by the language; `SocketSharing` has it read first.

## The plan

1. Two faults in the pipeline, if the state space allows.
2. More of what a write job's two halves promise together: `DatabaseJob` abstracts the
   rows of a batch, `WriteBatch` the loop that inserts them.
