----------------------------- MODULE BatchAnswers -----------------------------
(***************************************************************************)
(* A batch and its answers.  "each batch should only contain messages that *)
(* are either all read or all write", so it is either the batch of         *)
(* ReadAnswer or that of WriteBatch, whose variables are renamed here; the *)
(* other one does nothing.                                                 *)
(***************************************************************************)
EXTENDS ReadAnswer

CONSTANTS TopicOrder, Messages, MaxWrites, MaxFailures, MaxUses

VARIABLES
  is_read,       \* what ResultJob sees by the batch's first topic
  use, w_queries, pc, n, buffer, out_buffer, generic_query_indices, version_nums,
  batch_err, w_err, inserted, next_version, reply, failures

W == INSTANCE WriteBatch WITH
       MaxQueries <- MaxWrites, queries <- w_queries, err <- w_err

ASSUME WriteAssumption == W!MessagesAreKnown

writevars == <<use, w_queries, pc, n, buffer, out_buffer, generic_query_indices,
               version_nums, batch_err, w_err, inserted, next_version, reply, failures>>

\* One read query stands for the reads of a batch of writes.
BatchInit ==
  /\ is_read \in BOOLEAN
  /\ AnswerInit /\ (is_read \/ queries = <<"cached">>)
  /\ W!Init

\* DatabaseJob and ResultJob process what is in the batch.
BatchNext ==
  /\ \/ is_read /\ AnswerNext /\ UNCHANGED writevars
     \/ ~is_read /\ W!Next /\ UNCHANGED allvars
  /\ UNCHANGED is_read

BatchSpec ==
  /\ BatchInit
  /\ [][BatchNext]_<<is_read, allvars, writevars>>
  /\ WF_<<is_read, allvars, writevars>>(is_read /\ WorkerNext /\ UNCHANGED <<is_read, writevars>>)

-----------------------------------------------------------------------------
BatchTypeOK == is_read \in BOOLEAN /\ AnswerTypeOK /\ W!TypeOK

\* Whatever topics are mixed in a batch, and whichever inserts fail, a client is given
\* the version number of its own row, or is told of the failure (see WriteBatch).
OwnVersion == W!OwnVersion

\* Rows and version numbers of an earlier use of the batch are never used again, not
\* even if this use's messages are bad (see WriteBatch).
NothingFromBefore == W!NothingFromBefore

\* Every query in a batch of reads is answered in the end, however often the rest of
\* the batch is put into another pipeline, unless a lookup ran into a swap.
EveryReadIsAnswered == is_read => EveryBatchIsAnswered
=============================================================================
