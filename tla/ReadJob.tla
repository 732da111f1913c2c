------------------------------- MODULE ReadJob -------------------------------
(***************************************************************************)
(* DatabaseWorkers::DatabaseJob, the reading half: a batch of read queries *)
(* goes through a pqxx::pipeline.  All are pushed, then their results are  *)
(* pulled in turn.  A query that fails takes the pipeline with it, so the  *)
(* job notes where it was (last_i), and pushes and pulls the rest again.   *)
(*                                                                         *)
(* Queries the database is not to see, because they are answered from the  *)
(* configuration cache or did not decompress, have the id 0.               *)
(*                                                                         *)
(* An operator named Bug... is what a plausible mistake would make of the  *)
(* definition after it; nothing uses it.                                   *)
(***************************************************************************)
EXTENDS Naturals, Sequences

CONSTANT MaxQueries      \* bounds the queries in a batch

ASSUME MaxQueriesAssumption == MaxQueries \in Nat

\* What is to become of a query: a result, an error, an answer from the cache,
\* or the error it already has.
Kinds == {"good", "fails", "cached", "undecompressed"}

VARIABLES
  queries,   \* the kind of each query in the batch
  last_i,    \* queries the earlier rounds are done with
  ids,       \* the id of each query of this round, here its number or 0
  i,         \* the id to be pulled
  phase,     \* push, pull, or done
  result,    \* the query whose result each query was given; 0 for none
  err        \* queries with an error

vars == <<queries, last_i, ids, i, phase, result, err>>

N == Len(queries)

Init ==
  /\ \E n \in 1..MaxQueries : queries \in [1..n -> Kinds]
  /\ last_i = 0
  /\ ids = <<>>
  /\ i = 1
  /\ phase = "push"
  /\ result = [k \in 1..N |-> 0]
  /\ err = {k \in 1..N : queries[k] = "undecompressed"}

\* A query with an error, or for the cache.
Skipped(k) == k \in err \/ queries[k] = "cached"

BugIdsUnaligned == SelectSeq([k \in 1..(N - last_i) |-> last_i + k], LAMBDA q : ~Skipped(q))
Ids == [k \in 1..(N - last_i) |-> IF Skipped(last_i + k) THEN 0 ELSE last_i + k]

Push ==
  /\ phase = "push"
  /\ ids' = Ids
  /\ i' = 1
  /\ phase' = "pull"
  /\ UNCHANGED <<queries, last_i, result, err>>

Pulling == phase = "pull" /\ i <= Len(ids)

\* The query whose result is pulled; the query whose being skipped is looked up.
Pulled == i + last_i
SkipTest == Skipped(i)

SkipPull ==
  /\ Pulling
  /\ SkipTest
  /\ i' = i + 1
  /\ UNCHANGED <<queries, last_i, ids, phase, result, err>>

\* pipeline::retrieve throws for a query that fails or comes after one that does,
\* and for an id it did not give.
Retrieves(id) ==
  /\ id # 0
  /\ \A k \in 1..Len(ids) : ids[k] # 0 /\ ids[k] <= id => queries[ids[k]] # "fails"

Pull ==
  /\ Pulling
  /\ ~SkipTest
  /\ Retrieves(ids[i])
  /\ result' = [result EXCEPT ![Pulled] = ids[i]]
  /\ i' = i + 1
  /\ UNCHANGED <<queries, last_i, ids, phase, err>>

\* The error is noted, and the rest is for another round.
BugSameRound == last_i + i - 1
NextRound == last_i + i

PullFails ==
  /\ Pulling
  /\ ~SkipTest
  /\ ~Retrieves(ids[i])
  /\ err' = err \cup {Pulled}
  /\ result' = [result EXCEPT ![Pulled] = 0]
  /\ last_i' = NextRound
  /\ phase' = "push"
  /\ UNCHANGED <<queries, ids, i>>

\* Results nobody pulled are flushed, and the batch goes to query_results.
Done ==
  /\ phase = "pull"
  /\ i > Len(ids)
  /\ phase' = "done"
  /\ UNCHANGED <<queries, last_i, ids, i, result, err>>

Next == Push \/ SkipPull \/ Pull \/ PullFails \/ Done

Spec == Init /\ [][Next]_vars

-----------------------------------------------------------------------------
TypeOK ==
  /\ last_i \in 0..N
  /\ i \in 1..(N + 1)
  /\ phase \in {"push", "pull", "done"}
  /\ result \in [1..N -> 0..N]
  /\ err \subseteq 1..N

\* No client is given another's rows, however often the round starts anew.
ResultIsOwn == \A k \in 1..N : result[k] \in {0, k}

\* A query has a result if it is good, an error if it is not.
Settled(k) ==
  CASE queries[k] = "good"   -> result[k] = k /\ k \notin err
    [] queries[k] = "cached" -> TRUE
    [] OTHER                 -> result[k] = 0 /\ k \in err

\* "all subsequent queries will have failed, so we need to break here and
\* re-sumbit them": a query after one that failed is settled like any other.
ResubmittedAreSettled == phase = "done" => \A k \in 1..N : Settled(k)
=============================================================================
