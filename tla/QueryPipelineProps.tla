-------------------------- MODULE QueryPipelineProps --------------------------
(***************************************************************************)
(* What is required of the query pipeline.                                 *)
(***************************************************************************)
EXTENDS QueryPipeline

\* The variables hold what the C++ members they stand for can hold.
TypeOK ==
  /\ held \in [Stage -> Seq(Batch)]
  /\ queries \in [Batch -> Seq(Entry)]
  /\ make_new \in [Path -> BOOLEAN]
  /\ pc \in [Path -> {"transfer", "receive", "reply"}]
  /\ running \in [Path -> BOOLEAN]
  /\ out_i \in Nat
  /\ db_phase \in [DbJob -> {"idle", "reads", "writes"}]
  /\ arrived \subseteq Query
  /\ done \subseteq Query
  /\ sent \in [Query -> Nat]
  /\ dropped \subseteq Query
  /\ faults \in 0..MaxFaults

\* A batch pointer is in one place of one container: no two threads ever work
\* on the same QueryBatch, and none is recycled while another tool has it.
Owned(h) ==
  \A s, t \in Stage : \A i \in DOMAIN h[s], k \in DOMAIN h[t] :
    h[s][i] = h[t][k] => s = t /\ i = k

OneOwner == Owned(held)

\* Where the code relies on a container's length: a receiver always has the one
\* batch it fills, the sender at most the one it answers, and a database job that
\* has handed its batches on no longer has them.
StageShape ==
  /\ \A p \in Path : Len(held[in_local_queue(p)]) = 1
  /\ Len(held[out_local_queue]) <= 1
  /\ \A j \in DbJob :
       /\ db_phase[j] # "reads" => held[db_queue("read", j)] = <<>>
       /\ db_phase[j] = "idle" => held[db_queue("write", j)] = <<>>

\* No tool forgets a batch it was given (a failed job's batch counts as leaked).
NoBatchForgotten == [][Created \subseteq Created']_held

\* A batch is recycled empty: whatever its next user puts in is all there is.
PoolIsClean == \A b \in ToSet(held[querybatch_pool]) : queries[b] = <<>>

\* An incompletely received message never leaves the receiver that has it: it is
\* overwritten by the next message, removed before the batch is handed on, or
\* forgotten with the batch when the receiver is restarted.
NoPartialDownstream ==
  \A s \in Stage \ ({in_local_queue(p) : p \in Path} \cup {leaked}) :
    Partial \notin QueriesIn(s)

\* The client of a query is answered at most once, and never both told and
\* counted as dropped, whatever is recycled meanwhile.
AtMostOneReply == \A q \in Query :
  /\ sent[q] <= 1
  /\ sent[q] = 1 => q \notin dropped

\* Batches of reads and of writes do not mix.
Uniform(b) ==
  \/ ToSet(queries[b]) \subseteq ReadQuery \cup {Partial}
  \/ ToSet(queries[b]) \subseteq WriteQuery \cup {Partial}

\* ResultJob tells by the first query of its batch what the batch is of, and has
\* no other way to: there must be a first query, unless the only message the
\* receiver was handed was a bad one, and the rest must be like it.
FrontTellsAll ==
  /\ \A b \in Batch : Uniform(b)
  /\ \A b \in ToSet(held[result_jobs]) : queries[b] = <<>> => faults > 0

-----------------------------------------------------------------------------
(* The pipeline implements QueryService.                                   *)

Lost == dropped \cup QueriesIn(leaked)

statusBar == [q \in Query |-> IF sent[q] > 0      THEN "answered"
                             ELSE IF q \in Lost    THEN "lost"
                             ELSE IF q \in done    THEN "executed"
                             ELSE IF q \in arrived THEN "accepted"
                             ELSE "new"]

Service == INSTANCE QueryService WITH status <- statusBar

\* Every step of the pipeline is a step of the service or invisible to clients.
ImplementsService == Service!Spec

\* Every query that comes in is answered, or lost to a fault: its job failed, its
\* reply could not be sent, or its receiver was restarted with its batch.  In a behaviour without faults none is lost, so there
\* every query is answered.
EveryQuerySettled == \A q \in Query :
  (q \in arrived) ~> (sent[q] = 1 \/ q \in Lost)
=============================================================================
