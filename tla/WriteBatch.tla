------------------------------ MODULE WriteBatch ------------------------------
(***************************************************************************)
(* One QueryBatch of write queries, from the WriteMessageJob that sorts    *)
(* its messages into a buffer a table, through the inserts of DatabaseJob, *)
(* to the ResultJob that deals the returned version numbers out again.     *)
(*                                                                         *)
(* Nothing but order ties a version number to its query: the rows of a     *)
(* buffer are in the order of the queries, "returning version" yields one  *)
(* number a row, and ResultJob gives the next number to the next query of  *)
(* the topic.  The batch is recycled, so what a use leaves behind matters. *)
(*                                                                         *)
(* A query is its index in the batch; a row, and the version number it is  *)
(* given, are the query they came from: <<use of the batch, index>>.       *)
(*                                                                         *)
(* An operator named Bug... is what a plausible mistake would make of the  *)
(* definition after it; nothing uses it.                                   *)
(***************************************************************************)
EXTENDS Naturals, Sequences, SequencesExt

CONSTANTS
  TopicOrder,    \* the buffered topics, as DatabaseJob inserts them; alarm first
  Messages,      \* what clients send: [topic, bad], bad if it does not decompress
  MaxQueries,    \* bounds the queries in a batch
  MaxFailures,   \* bounds the inserts that fail
  MaxUses        \* bounds the uses of the batch

Topic == ToSet(TopicOrder)
Versioned == Topic \ {"alarm"}          \* whose inserts return version numbers

\* What must be assumed of them.
MessagesAreKnown ==
  /\ TopicOrder \in Seq(Topic) /\ IsInjective(TopicOrder)
  /\ "alarm" \in Topic
  /\ "generic" \notin Topic /\ "unknown" \notin Topic
  /\ \A m \in Messages : /\ m.topic \in Topic \cup {"generic", "unknown"}
                         /\ m.bad \in BOOLEAN
  /\ MaxQueries \in Nat /\ MaxFailures \in Nat /\ MaxUses \in Nat

VARIABLES
  use,           \* which use of the batch this is
  queries,       \* the messages in the batch
  pc,            \* pool, buffering, database, results, answered, undefined
  n,             \* the next query, or the next topic to insert
  buffer,        \* the rows in each topic's buffer
  out_buffer,    \* the topic whose buffer was written last; "none" of this batch's
  generic_query_indices,
  version_nums, batch_err,   \* what the insert of each topic returned
  err,           \* queries with an error of their own
  inserted,      \* rows in the database
  next_version,  \* ResultJob's index into each topic's version_nums
  reply,         \* [ok, version] for each query answered
  failures

batch == <<buffer, out_buffer, generic_query_indices>>
vars == <<use, queries, pc, n, batch, version_nums, batch_err, err, inserted,
          next_version, reply, failures>>

Row(k) == <<use, k>>
NoReply == [ok |-> FALSE, version |-> "none"]

Init ==
  /\ use = 0 /\ queries = <<>> /\ pc = "pool" /\ n = 1
  /\ buffer = [t \in Topic |-> <<>>] /\ out_buffer = "none"
  /\ generic_query_indices = <<>>
  /\ version_nums = [t \in Versioned |-> <<>>]
  /\ batch_err = [t \in Topic |-> FALSE]
  /\ err = {} /\ inserted = {} /\ failures = 0
  /\ next_version = [t \in Versioned |-> 1]
  /\ reply = <<>>

-----------------------------------------------------------------------------
(* WriteMessageJob.                                                        *)

\* QueryBatch::reset()
BugVersionsKept ==
  /\ buffer' = [t \in Topic |-> <<>>]
  /\ generic_query_indices' = <<>>
  /\ batch_err' = [t \in Topic |-> FALSE]
  /\ UNCHANGED version_nums
BugGenericsKept ==
  /\ buffer' = [t \in Topic |-> <<>>]
  /\ version_nums' = [t \in Versioned |-> <<>>]
  /\ batch_err' = [t \in Topic |-> FALSE]
  /\ UNCHANGED generic_query_indices
Reset ==
  /\ buffer' = [t \in Topic |-> <<>>]
  /\ generic_query_indices' = <<>>
  /\ version_nums' = [t \in Versioned |-> <<>>]
  /\ batch_err' = [t \in Topic |-> FALSE]

\* A receiver has filled the batch; its job starts by resetting the rest of it.
StartJob ==
  /\ pc \in {"pool", "answered"}
  /\ use < MaxUses
  /\ use' = use + 1
  /\ \E k \in 1..MaxQueries : queries' \in [1..k -> Messages]
  /\ Reset
  /\ err' = {} /\ out_buffer' = "none"
  /\ pc' = "buffering" /\ n' = 1
  /\ reply' = <<>>
  /\ UNCHANGED <<inserted, next_version, failures>>

\* The switch on the topic: an unknown one leaves out_buffer as it is.
OutBuffer(t) == IF t \in Topic THEN t ELSE out_buffer

Buffering(m) ==
  /\ pc = "buffering"
  /\ n <= Len(queries)
  /\ m = queries[n]
  /\ n' = n + 1
  /\ UNCHANGED <<use, queries, version_nums, batch_err, inserted, next_version,
                 reply, failures>>

\* A message that does not decompress is flagged and left out.
FlagBad(m) ==
  /\ Buffering(m)
  /\ m.bad
  /\ err' = err \cup {n}
  /\ UNCHANGED <<batch, pc>>

\* Generic queries cannot be batched: the index of one is noted.
IsGeneric(m) == ~m.bad /\ m.topic = "generic"

NoteGeneric(m) ==
  /\ Buffering(m)
  /\ IsGeneric(m)
  /\ generic_query_indices' = Append(generic_query_indices, n)
  /\ UNCHANGED <<buffer, out_buffer, err, pc>>

\* Any other is appended to the buffer out_buffer points to.  If that is none of
\* this batch's, the pointer is an earlier job's, or was never initialised.
AppendRow(m) ==
  LET t == OutBuffer(m.topic) IN
  /\ Buffering(m)
  /\ ~m.bad /\ ~IsGeneric(m)
  /\ \/ /\ t \in Topic
        /\ buffer' = [buffer EXCEPT ![t] = Append(@, Row(n))]
        /\ out_buffer' = t
        /\ UNCHANGED pc
     \/ /\ t \notin Topic
        /\ pc' = "undefined"
        /\ UNCHANGED <<buffer, out_buffer>>
  /\ UNCHANGED <<generic_query_indices, err>>

PassToDatabase ==
  /\ pc = "buffering"
  /\ n > Len(queries)
  /\ pc' = "database" /\ n' = 1
  /\ UNCHANGED <<use, queries, batch, version_nums, batch_err, err, inserted,
                 next_version, reply, failures>>

-----------------------------------------------------------------------------
(* DatabaseJob: each buffer that is not empty is inserted by one statement. *)

Inserting(t) == pc = "database" /\ n <= Len(TopicOrder) /\ t = TopicOrder[n]

\* for_query collects a version number a row, as the rows are.
BugReversed(t) == Reverse(buffer[t])
VersionsOf(t) == buffer[t]

Insert(t) ==
  /\ Inserting(t)
  /\ n' = n + 1
  /\ version_nums' = IF t \in Versioned
                     THEN [version_nums EXCEPT ![t] = @ \o VersionsOf(t)]
                     ELSE version_nums
  /\ inserted' = inserted \cup ToSet(buffer[t])
  /\ UNCHANGED <<use, queries, pc, batch, batch_err, err, next_version, reply, failures>>

\* An insert fails: it, and what was inserted of the batch before, is gone (see
\* DatabaseJob).  A version number that is not a uint16_t fails it after the rows
\* before were collected.
InsertFails(t) ==
  /\ Inserting(t)
  /\ buffer[t] # <<>>
  /\ failures < MaxFailures
  /\ failures' = failures + 1
  /\ n' = n + 1
  /\ batch_err' = [batch_err EXCEPT ![t] = TRUE]
  /\ IF t \in Versioned
     THEN \E k \in 0..(Len(buffer[t]) - 1) :
            version_nums' = [version_nums EXCEPT ![t] = @ \o SubSeq(buffer[t], 1, k)]
     ELSE UNCHANGED version_nums
  /\ inserted' = {r \in inserted : r[1] # use}
  /\ UNCHANGED <<use, queries, pc, batch, err, next_version, reply>>

\* A generic query fails on its own account.
GenericFails ==
  /\ pc = "database" /\ n = 1
  /\ failures < MaxFailures
  /\ failures' = failures + 1
  /\ \E k \in ToSet(generic_query_indices) : k \notin err /\ err' = err \cup {k}
  /\ UNCHANGED <<use, queries, pc, n, batch, version_nums, batch_err, inserted,
                 next_version, reply>>

PassToResults ==
  /\ pc = "database"
  /\ n > Len(TopicOrder)
  /\ pc' = "results" /\ n' = 1
  /\ next_version' = [t \in Versioned |-> 1]
  /\ UNCHANGED <<use, queries, batch, version_nums, batch_err, err, inserted,
                 reply, failures>>

-----------------------------------------------------------------------------
(* ResultJob.                                                              *)

\* An insert that returned version numbers worked.
Ok(t) == IF t = "alarm" THEN ~batch_err[t] ELSE version_nums[t] # <<>>

\* The next version number of the topic; past the last, whatever is there.
Version(t) == IF next_version[t] <= Len(version_nums[t])
              THEN version_nums[t][next_version[t]] ELSE "garbage"

TakeVersion(t) == next_version' = [next_version EXCEPT ![t] = @ + 1]

\* A query of an unknown topic is given no answer of its own.
Reply(k, t) ==
  CASE t = "generic"   -> [ok |-> k \notin err, version |-> "none"]
    [] t = "alarm"     -> [ok |-> Ok(t), version |-> "none"]
    [] t \in Versioned -> IF Ok(t) THEN [ok |-> TRUE, version |-> Version(t)]
                          ELSE NoReply
    [] OTHER           -> NoReply

AnswerQuery ==
  LET t == queries[n].topic IN
  /\ pc = "results"
  /\ n <= Len(queries)
  /\ n' = n + 1
  /\ reply' = Append(reply, Reply(n, t))
  /\ IF t \in Versioned /\ Ok(t) THEN TakeVersion(t) ELSE UNCHANGED next_version
  /\ UNCHANGED <<use, queries, pc, batch, version_nums, batch_err, err, inserted, failures>>

PassToReplies ==
  /\ pc = "results"
  /\ n > Len(queries)
  /\ pc' = "answered"
  /\ UNCHANGED <<use, queries, n, batch, version_nums, batch_err, err, inserted,
                 next_version, reply, failures>>

Next ==
  \/ StartJob \/ PassToDatabase
  \/ \E m \in Messages : FlagBad(m) \/ NoteGeneric(m) \/ AppendRow(m)
  \/ \E t \in Topic : Insert(t) \/ InsertFails(t)
  \/ GenericFails \/ PassToResults
  \/ AnswerQuery \/ PassToReplies

Spec == Init /\ [][Next]_vars

-----------------------------------------------------------------------------
(* What is required.                                                       *)

Answered == pc = "answered"

TypeOK ==
  /\ use \in 0..MaxUses /\ failures \in 0..MaxFailures
  /\ Len(queries) <= MaxQueries /\ ToSet(queries) \subseteq Messages
  /\ pc \in {"pool", "buffering", "database", "results", "answered", "undefined"}
  /\ \A t \in Topic : ToSet(buffer[t]) \subseteq (1..use) \X (1..MaxQueries)
  /\ out_buffer \in Topic \cup {"none"}
  /\ batch_err \in [Topic -> BOOLEAN]
  /\ err \subseteq DOMAIN queries
  /\ ToSet(generic_query_indices) \subseteq DOMAIN queries
  /\ Len(reply) <= Len(queries)

\* Messages that decompress and whose topic is known.
Clean == \A k \in DOMAIN queries : ~queries[k].bad /\ queries[k].topic # "unknown"

\* An insert that failed returned no version number.
FailsWhole == \A t \in Versioned : batch_err[t] => version_nums[t] = <<>>

\* Whatever topics are mixed in a batch, and whichever inserts fail, a client is
\* given the version number of its own row, or is told of the failure.
OwnVersion ==
  Answered /\ Clean /\ FailsWhole =>
    \A k \in DOMAIN queries : queries[k].topic \in Versioned =>
      reply[k] = IF batch_err[queries[k].topic] THEN NoReply
                 ELSE [ok |-> TRUE, version |-> Row(k)]

\* Rows and version numbers of an earlier use of the batch are never used again,
\* not even if this use's messages are bad.
NothingFromBefore ==
  pc \notin {"pool", "answered"} =>
    /\ \A t \in Topic : \A r \in ToSet(buffer[t]) : r[1] = use
    /\ \A t \in Versioned : \A r \in ToSet(version_nums[t]) : r[1] = use

-----------------------------------------------------------------------------
(* What comments in the source say, and is not so.                         *)

\* "write queries only need to have their insertion success status returned": a
\* client told of success has its row in the database.
SuccessMeansInserted ==
  Answered => \A k \in DOMAIN queries :
    queries[k].topic \in Topic /\ reply[k].ok => Row(k) \in inserted
=============================================================================
