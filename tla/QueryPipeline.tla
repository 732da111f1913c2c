---------------------------- MODULE QueryPipeline ----------------------------
(***************************************************************************)
(* The life of a QueryBatch in the middleman.  A batch is a heap object    *)
(* passed by raw pointer from thread to thread:                            *)
(*                                                                         *)
(*   receiver -> *_msg_queue -> Write/ReadMessageJob -> *_query_queue      *)
(*     -> DatabaseJob -> query_results -> ResultJob -> query_replies       *)
(*     -> reply sender -> querybatch_pool -> receiver ...                  *)
(*                                                                         *)
(* No pointer is reference counted: that every batch has one owner, and is *)
(* recycled only once its answers are gone, is a protocol between seven    *)
(* tools.  Every container of batch pointers is a stage here, and held[s]  *)
(* is the sequence of pointers stage s holds; a handler moves pointers     *)
(* from stage to stage.  A step of this module is one critical section of  *)
(* the code together with the work on privately held data around it.       *)
(*                                                                         *)
(* An operator named Bug... is what a plausible mistake would make of the  *)
(* definition after it.  Nothing uses it: the runs are shown to reject the *)
(* specification with the one in the place of the other.                   *)
(***************************************************************************)
EXTENDS Naturals, Sequences, SequencesExt

CONSTANTS
  Batch,            \* the QueryBatch objects there can be
  DbJob,            \* DatabaseJobStructs in flight (bounds the worker farm)
  ReadQuery,        \* client queries that arrive at the read ROUTER socket
  WriteQuery,       \* client queries that arrive at the write SUB socket
  Partial,          \* a ZmqQuery whose receive did not complete
  LocalBufferSize,  \* local_buffer_size of the receivers
  MaxFaults         \* bounds failed polls, receives, sends and jobs

ASSUME ConstantsAssumption ==
  /\ Partial \notin ReadQuery \cup WriteQuery
  /\ ReadQuery \cap WriteQuery = {}
  /\ LocalBufferSize \in Nat \ {0}
  /\ MaxFaults \in Nat

Query == ReadQuery \cup WriteQuery
Entry == Query \cup {Partial}

\* The two receivers and their worker tools; the rest of the pipeline is shared.
Path == {"read", "write"}
QueryOf(p) == IF p = "read" THEN ReadQuery ELSE WriteQuery

-----------------------------------------------------------------------------
(* Stages: the containers a QueryBatch* can be in.                         *)

querybatch_pool   == <<"querybatch_pool">>
in_local_queue(p) == <<"in_local_queue", p>>       \* the receiver's own batch
msg_queue(p)      == <<"msg_queue", p>>            \* read/write_msg_queue
message_jobs(p)   == <<"message_jobs", p>>         \* Read/WriteMessageJobs
query_queue(p)    == <<"query_queue", p>>          \* read/write_query_queue
db_queue(p, j)    == <<"db_queue", p, j>>          \* j's read_queue/write_queue
query_results     == <<"query_results">>
result_jobs       == <<"result_jobs">>
query_replies     == <<"query_replies">>
out_local_queue   == <<"out_local_queue">>         \* the batch being answered
leaked            == <<"leaked">>                  \* no pointer left to it

Stage ==
  {querybatch_pool, query_results, result_jobs, query_replies,
   out_local_queue, leaked}
    \cup {in_local_queue(p) : p \in Path} \cup {msg_queue(p) : p \in Path}
    \cup {message_jobs(p) : p \in Path}   \cup {query_queue(p) : p \in Path}
    \cup {db_queue(p, j) : p \in Path, j \in DbJob}

VARIABLES
  held,       \* the batches in each stage
  queries,    \* QueryBatch::queries of each batch
  make_new,   \* receiver: is the last entry of the local batch complete?
  pc,         \* where each receiver thread is in its loop body
  running,    \* receivers whose thread did not stop itself
  out_i,      \* sender: index of the next reply in out_local_queue
  db_phase,   \* progress of each DatabaseJob
  arrived,    \* queries received from clients
  done,       \* queries a DatabaseJob has finished with
  sent,       \* replies sent for each query
  dropped,    \* queries whose reply could not be sent
  faults      \* faults so far

vars == <<held, queries, make_new, pc, running, out_i, db_phase, arrived, done, sent,
          dropped, faults>>

receiver == <<make_new, pc, running>>
clients  == <<sent, dropped>>

\* The batches that exist: each is held by some stage, if only by "leaked".
Created == UNION {ToSet(held[s]) : s \in Stage}

QueriesIn(s) == UNION {ToSet(queries[b]) : b \in ToSet(held[s])}

Init ==
  /\ \E local \in [Path -> Batch] :
       /\ local["read"] # local["write"]
       /\ held = [s \in Stage |->
                    IF s = in_local_queue("read") THEN <<local["read"]>>
                    ELSE IF s = in_local_queue("write") THEN <<local["write"]>>
                    ELSE <<>>]
  /\ queries = [b \in Batch |-> <<>>]
  /\ make_new = [p \in Path |-> TRUE]
  /\ pc = [p \in Path |-> "transfer"]
  /\ running = [p \in Path |-> TRUE]
  /\ out_i = 0
  /\ db_phase = [j \in DbJob |-> "idle"]
  /\ arrived = {}
  /\ done = {}
  /\ sent = [q \in Query |-> 0]
  /\ dropped = {}
  /\ faults = 0

\* One more fault of the environment, within the bound.
Fault == faults < MaxFaults /\ faults' = faults + 1

-----------------------------------------------------------------------------
(* The receiver threads: transfer, poll and receive, and for the read one  *)
(* the reply step.                                                         *)

\* The read receiver's thread also sends replies, the write receiver's not.
AfterReceive(p) == IF p = "read" THEN "reply" ELSE "transfer"

\* What receiver p keeps of its batch b: not the slot of a failed receive.
BugKeepsPartial(p, b) == queries[b]
CompleteEntries(p, b) == IF make_new[p] THEN queries[b] ELSE Front(queries[b])

\* A batch is handed on if it has an entry, of whatever sort.
BugTransfersEmpty(b) == TRUE
HasEntries(b) == queries[b] # <<>>

\* A batch at its limit is handed on whatever the transfer period says.
BelowLimit(b) == Len(queries[b]) < LocalBufferSize

\* ETERM, from a poll for messages or a receive, stops the thread once this loop body
\* is over.  What ZeroMQ reports it for is not in the repository: like Execute, the
\* model does not rule out that a new socket can be had after it.
MayStop(p) == \E going \in BOOLEAN : running' = [running EXCEPT ![p] = going]

\* The size or the transfer period is reached and the local batch is not empty:
\* an incomplete last entry is removed, the batch is handed to the workers and
\* GetNew gives the receiver another: one of the pool's, a new one if it has none.
Transfer(p) ==
  LET b == Head(held[in_local_queue(p)]) IN
  /\ pc[p] = "transfer" /\ running[p]
  /\ HasEntries(b)
  /\ \/ \E i \in DOMAIN held[querybatch_pool] :
            held' = [held EXCEPT
                       ![querybatch_pool]   = RemoveAt(@, i),
                       ![in_local_queue(p)] = <<held[querybatch_pool][i]>>,
                       ![msg_queue(p)]      = Append(@, b)]
     \/ /\ held[querybatch_pool] = <<>>
        /\ \E new \in Batch \ Created :
             held' = [held EXCEPT
                        ![in_local_queue(p)] = <<new>>,
                        ![msg_queue(p)]      = Append(@, b)]
  /\ queries' = [queries EXCEPT ![b] = CompleteEntries(p, b)]
  /\ make_new' = [make_new EXCEPT ![p] = TRUE]
  /\ pc' = [pc EXCEPT ![p] = "receive"]
  /\ UNCHANGED <<running, out_i, db_phase, arrived, done, clients, faults>>

\* Neither is reached, or there is nothing to hand on.
NoTransfer(p) ==
  LET b == Head(held[in_local_queue(p)]) IN
  /\ pc[p] = "transfer" /\ running[p]
  /\ ~HasEntries(b) \/ BelowLimit(b)
  /\ pc' = [pc EXCEPT ![p] = "receive"]
  /\ UNCHANGED <<held, queries, make_new, running, out_i, db_phase, arrived, done,
                 clients, faults>>

\* The slot a message is received into: a new one, or the one the previous
\* failed receive left behind.
IntoSlot(p, e) ==
  LET b == Head(held[in_local_queue(p)]) IN
  queries' = [queries EXCEPT ![b] = Append(CompleteEntries(p, b), e)]

Receive(p, q) ==
  /\ pc[p] = "receive"
  /\ q \in QueryOf(p) \ arrived
  /\ IntoSlot(p, q)
  /\ make_new' = [make_new EXCEPT ![p] = TRUE]
  /\ arrived' = arrived \cup {q}
  /\ pc' = [pc EXCEPT ![p] = AfterReceive(p)]
  /\ UNCHANGED <<held, running, out_i, db_phase, done, clients, faults>>

\* recv fails or throws, or there are not 4 parts; on EINTR the read receiver
\* leaves the loop body without its reply step.
ReceiveBad(p) ==
  /\ pc[p] = "receive"
  /\ Fault
  /\ IntoSlot(p, Partial)
  /\ make_new' = [make_new EXCEPT ![p] = FALSE]
  /\ \/ pc' = [pc EXCEPT ![p] = "transfer"] /\ UNCHANGED running
     \/ pc' = [pc EXCEPT ![p] = AfterReceive(p)] /\ MayStop(p)
  /\ UNCHANGED <<held, out_i, db_phase, arrived, done, clients>>

NoMessage(p) ==
  /\ pc[p] = "receive"
  /\ pc' = [pc EXCEPT ![p] = AfterReceive(p)]
  /\ UNCHANGED <<held, queries, make_new, running, out_i, db_phase, arrived, done,
                 clients, faults>>

PollError(p) ==
  /\ pc[p] = "receive"
  /\ Fault
  /\ pc' = [pc EXCEPT ![p] = "transfer"]
  /\ MayStop(p)
  /\ UNCHANGED <<held, queries, make_new, out_i, db_phase, arrived, done,
                 clients>>

ReplyStepEnds == pc' = [pc EXCEPT !["read"] = "transfer"]

\* There is a reply left in the batch being answered.
Answering ==
  /\ held[out_local_queue] # <<>>
  /\ out_i < Len(queries[Head(held[out_local_queue])])

\* The index moves before the send, so a reply whose send fails is gone.
BugFailedAgain(ok) == IF ok THEN out_i + 1 ELSE out_i
NextReply(ok) == out_i + 1

SendReply ==
  LET q == queries[Head(held[out_local_queue])][out_i + 1] IN
  /\ pc["read"] = "reply"
  /\ Answering
  /\ \/ /\ out_i' = NextReply(TRUE)
        /\ sent' = [sent EXCEPT ![q] = @ + 1]
        /\ UNCHANGED <<dropped, faults>>
     \/ /\ out_i' = NextReply(FALSE)
        /\ Fault
        /\ dropped' = dropped \cup {q}
        /\ UNCHANGED sent
  /\ ReplyStepEnds
  /\ UNCHANGED <<held, queries, make_new, running, db_phase, arrived, done>>

\* No peer is ready to take the reply, or the out poll failed.
PeerNotReady ==
  /\ pc["read"] = "reply"
  /\ Answering
  /\ ReplyStepEnds
  /\ UNCHANGED <<held, queries, make_new, running, out_i, db_phase, arrived, done,
                 clients, faults>>

\* The batch that has been answered, if there is one.
BugNullBatch ==
  IF held[out_local_queue] = <<>> THEN <<"nullptr">> ELSE held[out_local_queue]
AnsweredBatch == held[out_local_queue]

\* It is given back to the pool.
BugNotPooled(old) == held[querybatch_pool]
PoolWith(old) == held[querybatch_pool] \o old

\* It is emptied, and the next one is answered from its beginning.
BugNotEmptied(old) == out_i' = 0 /\ UNCHANGED queries
BugIndexKept(old) ==
  /\ queries' = [b \in Batch |-> IF b \in ToSet(old) THEN <<>> ELSE queries[b]]
  /\ UNCHANGED out_i
StartOver(old) ==
  /\ queries' = [b \in Batch |-> IF b \in ToSet(old) THEN <<>> ELSE queries[b]]
  /\ out_i' = 0

\* Everything in the batch is answered and there is another.
FetchReplies ==
  LET old == AnsweredBatch IN
  /\ pc["read"] = "reply"
  /\ ~Answering
  /\ held[query_replies] # <<>>
  /\ held' = [held EXCEPT
                ![querybatch_pool] = PoolWith(old),
                ![out_local_queue] = <<Head(held[query_replies])>>,
                ![query_replies]   = Tail(@)]
  /\ StartOver(old)
  /\ ReplyStepEnds
  /\ UNCHANGED <<make_new, running, db_phase, arrived, done, clients, faults>>

NoReplies ==
  /\ pc["read"] = "reply"
  /\ ~Answering
  /\ held[query_replies] = <<>>
  /\ ReplyStepEnds
  /\ UNCHANGED <<held, queries, make_new, running, out_i, db_phase, arrived, done,
                 clients, faults>>

-----------------------------------------------------------------------------
(* The main thread.                                                        *)

\* The batches receiver p has for itself.
Private(p) ==
  held[in_local_queue(p)] \o (IF p = "read" THEN held[out_local_queue] ELSE <<>>)

\* What becomes of them when it is restarted: the pointers are overwritten.
BugPooledAsTheyAre(p) == [held EXCEPT ![querybatch_pool] = @ \o Private(p)]
Forgotten(p) == [held EXCEPT ![leaked] = @ \o Private(p)]

\* Execute finds the thread stopped.  Finalise and Initialise give it a local batch
\* from GetNew and nothing to answer, whatever it had before.  If the thread cannot then
\* be created, it is found stopped again: as if its first poll had ended with ETERM.
Restart(p) ==
  LET h == Forgotten(p)
      out == IF p = "read" THEN <<>> ELSE held[out_local_queue] IN
  /\ pc[p] = "transfer" /\ ~running[p]
  /\ \/ \E i \in DOMAIN h[querybatch_pool] :
            held' = [h EXCEPT ![querybatch_pool]   = RemoveAt(@, i),
                              ![in_local_queue(p)] = <<h[querybatch_pool][i]>>,
                              ![out_local_queue]   = out]
     \/ /\ h[querybatch_pool] = <<>>
        /\ \E new \in Batch \ Created :
             held' = [h EXCEPT ![in_local_queue(p)] = <<new>>,
                               ![out_local_queue]   = out]
  /\ make_new' = [make_new EXCEPT ![p] = TRUE]
  /\ running' = [running EXCEPT ![p] = TRUE]
  /\ out_i' = IF p = "read" THEN 0 ELSE out_i
  /\ UNCHANGED <<queries, pc, db_phase, arrived, done, clients, faults>>

-----------------------------------------------------------------------------
(* The worker tools.  A distributor thread takes a whole queue and makes   *)
(* one job of each batch; jobs run concurrently and end in any order.      *)

\* The whole of one stage goes to another.
MoveAll(from, to) ==
  /\ held[from] # <<>>
  /\ held' = [held EXCEPT ![from] = <<>>, ![to] = @ \o held[from]]

\* One batch of a stage goes to the end of another.
MoveOne(from, i, to) ==
  held' = [held EXCEPT ![from] = RemoveAt(@, i), ![to] = Append(@, held[from][i])]

\* WriteWorkers::Thread and ReadWorkers::Thread.
DistributeMessages(p) ==
  /\ MoveAll(msg_queue(p), message_jobs(p))
  /\ UNCHANGED <<queries, receiver, out_i, db_phase, arrived, done, clients,
                 faults>>

\* The tool a message job hands its batch to.
BugSkipsDatabase(p) == query_results
NextTool(p) == query_queue(p)

\* WriteMessageJob and ReadMessageJob.
MessageJob(p) ==
  /\ \E i \in DOMAIN held[message_jobs(p)] :
       MoveOne(message_jobs(p), i, NextTool(p))
  /\ UNCHANGED <<queries, receiver, out_i, db_phase, arrived, done, clients,
                 faults>>

\* The fail handlers return the job's arguments and forget its batch.
MessageFail(p) ==
  /\ Fault
  /\ \E i \in DOMAIN held[message_jobs(p)] : MoveOne(message_jobs(p), i, leaked)
  /\ UNCHANGED <<queries, receiver, out_i, db_phase, arrived, done, clients>>

\* DatabaseWorkers::Thread: a job takes everything from both query queues.
DatabaseDistribute(j) ==
  /\ db_phase[j] = "idle"
  /\ \E p \in Path : held[query_queue(p)] # <<>>
  /\ held' = [held EXCEPT
                ![db_queue("write", j)]  = held[query_queue("write")],
                ![query_queue("write")]  = <<>>,
                ![db_queue("read", j)]   = held[query_queue("read")],
                ![query_queue("read")]   = <<>>]
  /\ db_phase' = [db_phase EXCEPT ![j] = "reads"]
  /\ UNCHANGED <<queries, receiver, out_i, arrived, done, clients, faults>>

\* DatabaseJob runs its read batches and hands them on, then its write batches.
BugHandsOnTwice(p, j) ==
  held' = [held EXCEPT ![query_results] = @ \o held[db_queue(p, j)]]
HandOn(p, j) ==
  held' = [held EXCEPT ![db_queue(p, j)] = <<>>,
                       ![query_results] = @ \o held[db_queue(p, j)]]

DatabasePart(p, j, next) ==
  /\ HandOn(p, j)
  /\ done' = done \cup QueriesIn(db_queue(p, j))
  /\ db_phase' = [db_phase EXCEPT ![j] = next]
  /\ UNCHANGED <<queries, receiver, out_i, arrived, clients, faults>>

DatabaseReads(j)  == db_phase[j] = "reads"  /\ DatabasePart("read", j, "writes")
DatabaseWrites(j) == db_phase[j] = "writes" /\ DatabasePart("write", j, "idle")

\* DatabaseJobFail, whichever part the job was in: what it still owns is leaked.
DatabaseFail(j) ==
  /\ db_phase[j] # "idle"
  /\ Fault
  /\ held' = [held EXCEPT
                ![db_queue("read", j)]  = <<>>,
                ![db_queue("write", j)] = <<>>,
                ![leaked] = @ \o held[db_queue("read", j)]
                              \o held[db_queue("write", j)]]
  /\ db_phase' = [db_phase EXCEPT ![j] = "idle"]
  /\ UNCHANGED <<queries, receiver, out_i, arrived, done, clients>>

\* ResultWorkers::Thread.
DistributeResults ==
  /\ MoveAll(query_results, result_jobs)
  /\ UNCHANGED <<queries, receiver, out_i, db_phase, arrived, done, clients,
                 faults>>

\* It asks queries.front() what the batch is of.  Of a batch with no query that is
\* undefined: the program may die of it, which is a behaviour that stops here, or go
\* on, and then the loops over the batch do nothing.
ResultJob ==
  /\ \E i \in DOMAIN held[result_jobs] : MoveOne(result_jobs, i, query_replies)
  /\ UNCHANGED <<queries, receiver, out_i, db_phase, arrived, done, clients,
                 faults>>

ResultJobFail ==
  /\ Fault
  /\ \E i \in DOMAIN held[result_jobs] : MoveOne(result_jobs, i, leaked)
  /\ UNCHANGED <<queries, receiver, out_i, db_phase, arrived, done, clients>>

-----------------------------------------------------------------------------
ReceiverNext(p) ==
  \/ Transfer(p) \/ NoTransfer(p)
  \/ \E q \in Query : Receive(p, q)
  \/ ReceiveBad(p) \/ NoMessage(p) \/ PollError(p)

SenderNext == SendReply \/ PeerNotReady \/ FetchReplies \/ NoReplies

WorkerNext ==
  \/ \E p \in Path : DistributeMessages(p) \/ MessageJob(p) \/ MessageFail(p)
  \/ DistributeResults \/ ResultJob \/ ResultJobFail

DatabaseNext ==
  \E j \in DbJob : \/ DatabaseDistribute(j) \/ DatabaseReads(j)
                   \/ DatabaseWrites(j) \/ DatabaseFail(j)

Next ==
  \/ \E p \in Path : ReceiverNext(p) \/ Restart(p)
  \/ SenderNext \/ WorkerNext \/ DatabaseNext

Spec == Init /\ [][Next]_vars

\* Threads and workers are scheduled fairly.  A receiver's loop goes on, or Execute,
\* called in every round of the tool chain, finds that it has stopped; the transfer
\* period passes again and again, and a peer that is connected is writable again and
\* again.
Fairness ==
  /\ \A p \in Path :
       /\ WF_vars(ReceiverNext(p))
       /\ SF_vars(Transfer(p)) /\ WF_vars(Restart(p))
       /\ WF_vars(DistributeMessages(p)) /\ WF_vars(MessageJob(p))
  /\ WF_vars(SenderNext) /\ SF_vars(SendReply) /\ SF_vars(FetchReplies)
  /\ \A j \in DbJob : WF_vars(DatabaseReads(j)) /\ WF_vars(DatabaseWrites(j))
  /\ WF_vars(\E j \in DbJob : DatabaseDistribute(j))
  /\ WF_vars(DistributeResults) /\ WF_vars(ResultJob)

FairSpec == Spec /\ Fairness

=============================================================================
