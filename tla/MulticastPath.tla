----------------------------- MODULE MulticastPath -----------------------------
(***************************************************************************)
(* Logging, monitoring and plots come in over UDP multicast.  Two          *)
(* MulticastReceiverSenders, one for logging and one for the rest, gather  *)
(* messages in a buffer and hand full ones to MulticastWorkers, whose jobs *)
(* sort the messages by topic into one batch a table for DatabaseWorkers:  *)
(*                                                                         *)
(*   receiver -> in_multicast_msg_queue -> job -> *_query_queue            *)
(*                                                                         *)
(* A receiver's thread stops itself when its poll fails; the tool's next   *)
(* Execute finalises and initialises the tool anew, which clears queues    *)
(* the other receiver uses too.  The same thread sends the messages others *)
(* have for multicast.                                                     *)
(*                                                                         *)
(* A batch is the messages in its text, in the order they have in the      *)
(* buffer they came in.  What DatabaseJob makes of it is the subject of    *)
(* the module of that name.                                                *)
(*                                                                         *)
(* An operator named Bug... is what a plausible mistake would make of the  *)
(* definition after it; nothing uses it.                                   *)
(***************************************************************************)
EXTENDS Naturals, Sequences, FiniteSets, SequencesExt

CONSTANTS
  Buffer,           \* the std::vector<std::string> objects there can be
  TopicOrder,       \* the topics, in the order a job hands their batches on
  Message,          \* what comes in
  TopicOf,          \* what each of them is about
  Load,             \* the messages to come to each receiver, and how many it may be
                    \* given to send
  local_buffer_size,
  MaxFaults         \* bounds failed polls, sends and jobs

Receiver == {"logging", "monitoring"}
Topic == ToSet(TopicOrder)

\* Messages are told apart by their arrival: each comes in once.
ASSUME MulticastAssumption ==
  /\ TopicOrder \in Seq(Topic) /\ TopicOrder # <<>> /\ IsInjective(TopicOrder)
  /\ {"bad", "none", "sort", "finish"} \cap Topic = {}
  /\ TopicOf \in [Message -> Topic \cup {"bad"}]
  /\ \A load \in Load :
       /\ load.in \in [Receiver -> Seq(Message)] /\ load.out \in [Receiver -> Nat]
       /\ \A r, s \in Receiver : \A i \in DOMAIN load.in[r], k \in DOMAIN load.in[s] :
            load.in[r][i] = load.in[s][k] => r = s /\ i = k
  /\ local_buffer_size \in Nat /\ MaxFaults \in Nat

VARIABLES
  pc,                \* each receiver's thread, or the restart of its tool
  in_local_queue,    \* the buffer it fills
  content,           \* the messages in each buffer
  multicast_buffer_pool,
  in_multicast_msg_queue,
  local_msg_queue,   \* the distributor's: buffers to make jobs of
  job,               \* for each buffer, the job that has it: its step
  batches,           \* and the batches it makes
  query_queue,       \* the batches of each topic that wait for DatabaseWorkers
  inserted,          \* how often each message was inserted for each topic
  to_come,           \* the messages that still come to each receiver
  to_publish,        \* how much each receiver is still to be given: it numbers
                     \* what is sent, so later ones have lower numbers
  out_queue, out_local_queue, out_i, sent,
  faults, failed     \* faults so far, and those that were failed jobs

incoming == <<content, in_multicast_msg_queue, to_come>>
workers  == <<local_msg_queue, job, batches, query_queue, inserted>>
outgoing == <<to_publish, out_queue, out_local_queue, out_i, sent>>
vars == <<pc, in_local_queue, multicast_buffer_pool, incoming, workers, outgoing,
          faults, failed>>

NoBatches == [t \in Topic |-> <<>>]

Init ==
  /\ pc = [r \in Receiver |-> "transfer"]
  /\ in_local_queue \in {f \in [Receiver -> Buffer] : f["logging"] # f["monitoring"]}
  /\ content = [b \in Buffer |-> <<>>]
  /\ multicast_buffer_pool = {}
  /\ in_multicast_msg_queue = <<>> /\ local_msg_queue = <<>>
  /\ job = [b \in Buffer |-> "none"]
  /\ batches = [b \in Buffer |-> NoBatches]
  /\ query_queue = [t \in Topic |-> <<>>]
  /\ inserted = [m \in Message |-> [t \in Topic |-> 0]]
  /\ \E load \in Load : to_come = load.in /\ to_publish = load.out
  /\ out_queue = [r \in Receiver |-> <<>>]
  /\ out_local_queue = [r \in Receiver |-> <<>>]
  /\ out_i = [r \in Receiver |-> 0]
  /\ sent = [r \in Receiver |-> <<>>]
  /\ faults = 0 /\ failed = 0

Fault == faults < MaxFaults /\ faults' = faults + 1

\* One of the pool's, a new one if it has none; which one is only a matter of names.
Working == {b \in Buffer : job[b] # "none"}
InUse == ToSet(in_multicast_msg_queue) \cup ToSet(local_msg_queue) \cup Working
           \cup {in_local_queue[r] : r \in Receiver}
GetNew == CHOOSE b \in Buffer :
  IF multicast_buffer_pool # {} THEN b \in multicast_buffer_pool ELSE b \notin InUse

\* There always is one in the code: Buffer bounds how many are made.
BufferLeft == multicast_buffer_pool # {} \/ Buffer \ InUse # {}

\* What a buffer's new owner finds in it.
BugNotEmptied(b) == UNCHANGED content
Emptied(b) == content' = [content EXCEPT ![b] = <<>>]

FillNewBuffer(r) ==
  /\ BufferLeft
  /\ in_local_queue' = [in_local_queue EXCEPT ![r] = GetNew]
  /\ Emptied(GetNew)
  /\ multicast_buffer_pool' = multicast_buffer_pool \ {GetNew}

-----------------------------------------------------------------------------
(* MulticastReceiverSender::Thread.                                        *)

BugOneMore(b) == Len(content[b]) > local_buffer_size + 1
Full(b) == Len(content[b]) > local_buffer_size

\* The buffer is full, or it is not empty and the transfer period is over.
Transfer(r) ==
  /\ pc[r] = "transfer"
  /\ content[in_local_queue[r]] # <<>>
  /\ in_multicast_msg_queue' = Append(in_multicast_msg_queue, in_local_queue[r])
  /\ FillNewBuffer(r)
  /\ pc' = [pc EXCEPT ![r] = "poll"]
  /\ UNCHANGED <<to_come, workers, outgoing, faults, failed>>

NoTransfer(r) ==
  /\ pc[r] = "transfer"
  /\ ~Full(in_local_queue[r])
  /\ pc' = [pc EXCEPT ![r] = "poll"]
  /\ UNCHANGED <<in_local_queue, multicast_buffer_pool, incoming, workers,
                 outgoing, faults, failed>>

Receive(r) ==
  /\ pc[r] = "poll"
  /\ to_come[r] # <<>>
  /\ content' = [content EXCEPT ![in_local_queue[r]] = Append(@, Head(to_come[r]))]
  /\ to_come' = [to_come EXCEPT ![r] = Tail(@)]
  /\ pc' = [pc EXCEPT ![r] = "write"]
  /\ UNCHANGED <<in_local_queue, multicast_buffer_pool, in_multicast_msg_queue,
                 workers, outgoing, faults, failed>>

\* Nothing there, or recvfrom fails: either way on to the sending part.  A poll
\* that is interrupted leaves it out.
NoMessage(r) ==
  /\ pc[r] = "poll"
  /\ \E next \in {"write", "transfer"} : pc' = [pc EXCEPT ![r] = next]
  /\ UNCHANGED <<in_local_queue, multicast_buffer_pool, incoming, workers,
                 outgoing, faults, failed>>

\* The thread stops itself.
PollFails(r) ==
  /\ pc[r] = "poll"
  /\ Fault
  /\ pc' = [pc EXCEPT ![r] = "stopped"]
  /\ UNCHANGED <<in_local_queue, multicast_buffer_pool, incoming, workers,
                 outgoing, failed>>

\* "always increment, even if error"
Send(r) ==
  /\ pc[r] = "write"
  /\ out_i[r] < Len(out_local_queue[r])
  /\ out_i' = [out_i EXCEPT ![r] = @ + 1]
  /\ \/ /\ sent' = [sent EXCEPT ![r] = Append(@, out_local_queue[r][out_i[r] + 1])]
        /\ UNCHANGED faults
     \/ Fault /\ UNCHANGED sent
  /\ pc' = [pc EXCEPT ![r] = "transfer"]
  /\ UNCHANGED <<in_local_queue, multicast_buffer_pool, incoming, workers,
                 to_publish, out_queue, out_local_queue, failed>>

\* All sent: take what there is by now.  Swapping queues leaves the old one empty.
BugOldKept(r) == out_queue[r] \o out_local_queue[r]
NextToSend(r) == out_queue[r]

FetchOutgoing(r) ==
  /\ pc[r] = "write"
  /\ out_i[r] >= Len(out_local_queue[r])
  /\ IF out_queue[r] # <<>>
     THEN /\ out_local_queue' = [out_local_queue EXCEPT ![r] = NextToSend(r)]
          /\ out_queue' = [out_queue EXCEPT ![r] = <<>>]
          /\ out_i' = [out_i EXCEPT ![r] = 0]
     ELSE UNCHANGED <<out_queue, out_local_queue, out_i>>
  /\ pc' = [pc EXCEPT ![r] = "transfer"]
  /\ UNCHANGED <<in_local_queue, multicast_buffer_pool, incoming, workers,
                 to_publish, sent, faults, failed>>

\* Another tool has something for multicast, as Monitoring does.
Publish(r) ==
  /\ to_publish[r] > 0
  /\ to_publish' = [to_publish EXCEPT ![r] = @ - 1]
  /\ out_queue' = [out_queue EXCEPT ![r] = Append(@, to_publish[r])]
  /\ UNCHANGED <<pc, in_local_queue, multicast_buffer_pool, incoming, workers,
                 out_local_queue, out_i, sent, faults, failed>>

-----------------------------------------------------------------------------
(* Execute finds the thread stopped: Finalise, then Initialise.            *)

\* Finalise clears the queue both receivers hand their buffers on by.
FinaliseIn(r) ==
  /\ pc[r] = "stopped"
  /\ in_multicast_msg_queue' = <<>>
  /\ pc' = [pc EXCEPT ![r] = "finalising"]
  /\ UNCHANGED <<in_local_queue, multicast_buffer_pool, content, to_come, workers,
                 outgoing, faults, failed>>

FinaliseOut(r) ==
  /\ pc[r] = "finalising"
  /\ out_queue' = [out_queue EXCEPT ![r] = <<>>]
  /\ pc' = [pc EXCEPT ![r] = "finalised"]
  /\ UNCHANGED <<in_local_queue, multicast_buffer_pool, incoming, workers,
                 to_publish, out_local_queue, out_i, sent, faults, failed>>

\* What was being sent goes on where it was.
BugFromTheStart(r) == out_i' = [out_i EXCEPT ![r] = 0]
ResumeSending(r) == UNCHANGED out_i

\* The receiver is given a new buffer; nothing points to the old one any more.
Initialise(r) ==
  /\ pc[r] = "finalised"
  /\ FillNewBuffer(r)
  /\ ResumeSending(r)
  /\ pc' = [pc EXCEPT ![r] = "transfer"]
  /\ UNCHANGED <<in_multicast_msg_queue, to_come, workers, to_publish, out_queue,
                 out_local_queue, sent, faults, failed>>

\* Initialise returns false.  Execute ignores that: it will find the thread stopped
\* again.  (A buffer of the pool that is taken by then is lost, which only makes the
\* pool smaller.)
InitialiseFails(r) ==
  /\ pc[r] = "finalised"
  /\ pc' = [pc EXCEPT ![r] = "stopped"]
  /\ UNCHANGED <<in_local_queue, multicast_buffer_pool, incoming, workers,
                 outgoing, faults, failed>>

-----------------------------------------------------------------------------
(* MulticastWorkers.  A job is named by the buffer it was given.           *)

\* The distributor swaps the queue with its own, which it has emptied.
BugQueueKept == in_multicast_msg_queue
QueueLeft == <<>>

Take ==
  /\ local_msg_queue = <<>>
  /\ in_multicast_msg_queue # <<>>
  /\ local_msg_queue' = in_multicast_msg_queue
  /\ in_multicast_msg_queue' = QueueLeft
  /\ UNCHANGED <<pc, in_local_queue, multicast_buffer_pool, content, to_come, job,
                 batches, query_queue, inserted, outgoing, faults, failed>>

Dispatch ==
  /\ local_msg_queue # <<>>
  /\ local_msg_queue' = Tail(local_msg_queue)
  /\ job' = [job EXCEPT ![Head(local_msg_queue)] = "sort"]
  /\ UNCHANGED <<pc, in_local_queue, multicast_buffer_pool, incoming, batches,
                 query_queue, inserted, outgoing, faults, failed>>

\* The messages of a topic, each known by its place in the buffer.  A message that does
\* not decompress, does not start with its topic or has an unknown one is ignored.
BugAnyTopic(b, t) == content[b]
Sorted(b, t) ==
  [i \in {k \in DOMAIN content[b] : TopicOf[content[b][k]] = t} |-> content[b][i]]

Sort(b) ==
  /\ job[b] = "sort"
  /\ batches' = [batches EXCEPT ![b] = [t \in Topic |-> Sorted(b, t)]]
  /\ job' = [job EXCEPT ![b] = TopicOrder[1]]
  /\ UNCHANGED <<pc, in_local_queue, multicast_buffer_pool, incoming,
                 local_msg_queue, query_queue, inserted, outgoing, faults, failed>>

\* Hand on the batch of one topic, if there is anything in it.
BugOnlyIfAlone(b, t) == DOMAIN batches[b][t] # {} /\ query_queue[t] = <<>>
HasRows(b, t) == DOMAIN batches[b][t] # {}

Push(b) == \E n \in DOMAIN TopicOrder :
  LET t == TopicOrder[n] IN
  /\ job[b] = t
  /\ query_queue' = IF HasRows(b, t)
                    THEN [query_queue EXCEPT ![t] = Append(@, batches[b][t])]
                    ELSE query_queue
  /\ batches' = [batches EXCEPT ![b][t] = <<>>]
  /\ job' = [job EXCEPT ![b] = IF n < Len(TopicOrder) THEN TopicOrder[n + 1]
                               ELSE "finish"]
  /\ UNCHANGED <<pc, in_local_queue, multicast_buffer_pool, incoming,
                 local_msg_queue, inserted, outgoing, faults, failed>>

\* The buffer goes back to its pool, empty.
ReturnBuffer(b) ==
  /\ Emptied(b)
  /\ multicast_buffer_pool' = multicast_buffer_pool \cup {b}
  /\ job' = [job EXCEPT ![b] = "none"]

Finish(b) ==
  /\ job[b] = "finish"
  /\ ReturnBuffer(b)
  /\ UNCHANGED <<pc, in_local_queue, in_multicast_msg_queue, to_come,
                 local_msg_queue, batches, query_queue, inserted, outgoing, faults,
                 failed>>

\* MulticastMessageFail: batches not yet handed on are forgotten.
JobFails(b) ==
  /\ job[b] # "none"
  /\ Fault
  /\ failed' = failed + 1
  /\ ReturnBuffer(b)
  /\ batches' = [batches EXCEPT ![b] = NoBatches]
  /\ UNCHANGED <<pc, in_local_queue, in_multicast_msg_queue, to_come,
                 local_msg_queue, query_queue, inserted, outgoing>>

\* Where message m is in the batches of a topic that wait.
Rows(t, m) ==
  UNION {{n} \X {i \in DOMAIN query_queue[t][n] : query_queue[t][n][i] = m} :
           n \in DOMAIN query_queue[t]}

\* A database job is given all the batches of a topic, and inserts them.
Insert(t) ==
  /\ query_queue[t] # <<>>
  /\ query_queue' = [query_queue EXCEPT ![t] = <<>>]
  /\ inserted' = [m \in Message |->
                    [inserted[m] EXCEPT ![t] = @ + Cardinality(Rows(t, m))]]
  /\ UNCHANGED <<pc, in_local_queue, multicast_buffer_pool, incoming,
                 local_msg_queue, job, batches, outgoing, faults, failed>>

-----------------------------------------------------------------------------
ReceiverNext(r) ==
  \/ Transfer(r) \/ NoTransfer(r)
  \/ Receive(r) \/ NoMessage(r) \/ PollFails(r) \/ Send(r) \/ FetchOutgoing(r)

RestartNext(r) ==
  FinaliseIn(r) \/ FinaliseOut(r) \/ Initialise(r) \/ InitialiseFails(r)

JobNext(b) == Sort(b) \/ Push(b) \/ Finish(b) \/ JobFails(b)

Next ==
  \/ \E r \in Receiver : ReceiverNext(r) \/ RestartNext(r) \/ Publish(r)
  \/ Take \/ Dispatch
  \/ \E b \in Buffer : JobNext(b)
  \/ \E t \in Topic : Insert(t)

Spec == Init /\ [][Next]_vars

\* Threads are scheduled, the transfer period passes again and again, and some
\* worker goes on as long as there is work.
Fairness ==
  /\ \A r \in Receiver : WF_vars(ReceiverNext(r)) /\ SF_vars(Transfer(r))
  /\ WF_vars(Take) /\ WF_vars(Dispatch)
  /\ WF_vars(\E b \in Buffer : JobNext(b)) /\ WF_vars(\E t \in Topic : Insert(t))

FairSpec == Spec /\ Fairness

-----------------------------------------------------------------------------
(* What is required.                                                       *)

\* What the variables hold; a receiver's buffer never grows past one more than its
\* size.
TypeOK ==
  /\ pc \in [Receiver -> {"transfer", "poll", "write", "stopped", "finalising",
                          "finalised"}]
  /\ in_local_queue \in [Receiver -> Buffer]
  /\ \A b \in Buffer : content[b] \in Seq(Message) /\ Len(content[b]) <= local_buffer_size + 1
  /\ multicast_buffer_pool \subseteq Buffer
  /\ ToSet(in_multicast_msg_queue) \cup ToSet(local_msg_queue) \subseteq Buffer
  /\ job \in [Buffer -> {"none", "sort", "finish"} \cup Topic]
  /\ \A t \in Topic : \A q \in ToSet(query_queue[t]) : DOMAIN q # {}
  /\ \A r \in Receiver : out_i[r] \in 0..Len(out_local_queue[r])
  /\ faults \in 0..MaxFaults /\ failed \in 0..faults

\* A buffer has one owner, restarts and failed jobs included: nothing is received
\* into a buffer that is being sorted, or that the other receiver fills.
BuffersHaveOneOwner ==
  /\ in_local_queue["logging"] # in_local_queue["monitoring"]
  /\ IsInjective(in_multicast_msg_queue \o local_msg_queue)
  /\ LET handed == ToSet(in_multicast_msg_queue \o local_msg_queue)
         local == {in_local_queue[r] : r \in Receiver} IN
     /\ handed \cap Working = {}
     /\ handed \cap local = {}
     /\ Working \cap local = {}
     /\ multicast_buffer_pool \cap InUse = {}

\* A message is inserted once at most, and for its own topic only.
InsertedOnce == \A m \in Message : \A t \in Topic :
  inserted[m][t] <= IF TopicOf[m] = t THEN 1 ELSE 0

\* The messages the workers have from the distributor on.
ReadyFor(b) == IF job[b] = "sort" THEN ToSet(content[b])
               ELSE UNION {ToSet(batches[b][t]) : t \in Topic}
AtWorkers ==
  (UNION {ToSet(content[b]) : b \in ToSet(local_msg_queue)})
    \cup (UNION {ReadyFor(b) : b \in Working})
    \cup (UNION {ToSet(q) : q \in UNION {ToSet(query_queue[t]) : t \in Topic}})
    \cup {m \in Message : \E t \in Topic : inserted[m][t] > 0}
Wanted == {m \in Message : TopicOf[m] \in Topic}

\* What the workers have they do not lose, whatever becomes of the receivers: only
\* a job that fails costs messages, and those are its own.
WorkersKeepMessages ==
  [][failed' = failed => AtWorkers \cap Wanted \subseteq AtWorkers']_vars

\* What is sent was published before, once and in that order; a restart may leave
\* some out but repeats none.
SentInOrder == \A r \in Receiver : \A n, k \in DOMAIN sent[r] :
  n < k => sent[r][n] > sent[r][k]

\* A message of a known topic that is received is inserted, if there is no fault.
EveryMessageInserted == \A m \in Wanted :
  (\E b \in Buffer : m \in ToSet(content[b]))
    ~> (inserted[m][TopicOf[m]] = 1 \/ faults > 0)
=============================================================================
