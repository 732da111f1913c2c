--------------------------- MODULE QueryRepliesProofs ---------------------------
(***************************************************************************)
(* What becomes of the batches that have been answered.                    *)
(*                                                                         *)
(* A batch comes to the pool from the sender alone, which empties it       *)
(* first; nobody fills one in the pool, since who fills a batch owns it    *)
(* (OneOwner).                                                             *)
(*                                                                         *)
(* A query is in one place of one batch.  Once it is answered, or its      *)
(* reply was lost, that place is behind the sender's index in the batch    *)
(* being answered, or in a batch nobody has any more: so it is not met     *)
(* again before its batch is emptied.                                      *)
(*                                                                         *)
(* Batches only go on from tool to tool, or to nobody, and on the way      *)
(* none of the tools touches one.  So what a DatabaseJob has finished      *)
(* with stays so until it is answered, which makes every step one of       *)
(* QueryService; and what a batch is of, when it is handed on, it is of    *)
(* when it comes to ResultJob.                                             *)
(***************************************************************************)
EXTENDS QueryPipelineProofs

\* The complete messages of a receiver's batch stay where they are.
LEMMA KeptEntries ==
  ASSUME MessageInv, NEW p \in Path,
         NEW b, b = held[in_local_queue(p)][1],
         NEW kept, kept = IF make_new[p] THEN queries[b] ELSE Front(queries[b])
  PROVE  \A k \in DOMAIN kept : k \in DOMAIN queries[b] /\ kept[k] = queries[b][k]
BY CompleteEntriesFacts, SMTT(60)

PoolInv == MessageInv /\ PoolIsClean

\* A pool that gets no other batches stays clean if none of its batches is filled.
LEMMA PoolKept ==
  ASSUME PoolInv,
         ToSet(held'[querybatch_pool]) \subseteq ToSet(held[querybatch_pool]),
         \A b \in ToSet(held[querybatch_pool]) :
           queries'[b] = queries[b] \/ queries'[b] = <<>>
  PROVE  PoolIsClean'
BY DEF PoolInv, PoolIsClean

\* A receiver's own batch is not in the pool.
LEMMA LocalIsNotPooled ==
  ASSUME PoolInv, NEW p \in Path, NEW b \in ToSet(held[querybatch_pool])
  PROVE  b \in Batch /\ b # Head(held[in_local_queue(p)])
<1>1. held[querybatch_pool] \in Seq(Batch)
  BY StageFacts DEF PoolInv, MessageInv, BatchInv
<1>2. PICK i \in DOMAIN held[querybatch_pool] : held[querybatch_pool][i] = b
  BY DEF ToSet
<1>3. i \in Nat /\ b \in Batch
  BY <1>1, <1>2
<1>4. QED
  BY <1>2, <1>3, LocalBatches, StageFacts DEF PoolInv, MessageInv

\* GetNew takes one batch of the pool.
LEMMA TakenFromPool ==
  ASSUME NEW s \in Seq(Batch), NEW i \in DOMAIN s
  PROVE  ToSet(RemoveAt(s, i)) \subseteq ToSet(s)
<1>1. i \in 1..Len(s) /\ Len(s) \in Nat
  BY LenProperties
<1>2. /\ RemoveAt(s, i) \in Seq(Batch) /\ Len(RemoveAt(s, i)) = Len(s) - 1
      /\ \A k \in 1..(Len(s) - 1) :
           RemoveAt(s, i)[k] = IF k < i THEN s[k] ELSE s[k + 1]
  BY <1>1, RemoveAtProperties
<1>3. ASSUME NEW k \in DOMAIN RemoveAt(s, i) PROVE RemoveAt(s, i)[k] \in ToSet(s)
  <2>1. k \in 1..(Len(s) - 1)
    BY <1>2, LenProperties
  <2>2. k \in DOMAIN s /\ k + 1 \in DOMAIN s
    BY <1>1, <2>1, LenProperties
  <2>3. QED  BY <1>2, <2>1, <2>2 DEF ToSet
<1>4. QED  BY <1>3 DEF ToSet

\* A receiver fills its own batch only, and takes another from the pool.
LEMMA ReceiverKeepsPool ==
  ASSUME PoolInv, NEW p \in Path, ReceiverNext(p) \/ Restart(p)
  PROVE  PoolIsClean'
<1> DEFINE own == Head(held[in_local_queue(p)])
           pool == held[querybatch_pool]
<1>1. /\ held \in [Stage -> Seq(Batch)] /\ queries \in [Batch -> Seq(Entry)]
      /\ pool \in Seq(Batch)
      /\ querybatch_pool \notin {in_local_queue(p), msg_queue(p), out_local_queue, leaked}
      /\ querybatch_pool \in Stage
  BY StageFacts DEF PoolInv, MessageInv, BatchInv, TypeOK
<1>2. ASSUME NEW x, queries' = [queries EXCEPT ![own] = x]
      PROVE  \A b \in ToSet(pool) : queries'[b] = queries[b]
  BY <1>1, <1>2, LocalIsNotPooled
<1>3. ASSUME held'[querybatch_pool] = pool
             \/ \E i \in DOMAIN pool : held'[querybatch_pool] = RemoveAt(pool, i)
      PROVE  ToSet(held'[querybatch_pool]) \subseteq ToSet(pool)
  BY <1>1, <1>3, TakenFromPool
<1>4. CASE Transfer(p)
  <2>1. held'[querybatch_pool] = pool
        \/ \E i \in DOMAIN pool : held'[querybatch_pool] = RemoveAt(pool, i)
    BY <1>1, <1>4 DEF Transfer
  <2>2. \E x : queries' = [queries EXCEPT ![own] = x]
    BY <1>4 DEF Transfer
  <2>3. QED  BY <1>2, <1>3, <2>1, <2>2, PoolKept
<1>5. CASE (\E q \in Query : Receive(p, q)) \/ ReceiveBad(p)
  <2>1. held' = held /\ \E x : queries' = [queries EXCEPT ![own] = x]
    BY <1>5 DEF Receive, ReceiveBad, IntoSlot
  <2>2. QED  BY <1>2, <1>3, <2>1, PoolKept
<1>6. CASE NoTransfer(p) \/ NoMessage(p) \/ PollError(p)
  <2>1. held' = held /\ queries' = queries
    BY <1>6 DEF NoTransfer, NoMessage, PollError
  <2>2. QED  BY <1>3, <2>1, PoolKept
<1>7. CASE Restart(p)
  <2>1. Forgotten(p) = [held EXCEPT ![leaked] = held[leaked] \o Private(p)]
    BY DEF Forgotten
  <2>2. Forgotten(p)[querybatch_pool] = pool /\ DOMAIN Forgotten(p) = Stage
    BY <1>1, <2>1
  <2>3. held'[querybatch_pool] = pool
        \/ \E i \in DOMAIN pool : held'[querybatch_pool] = RemoveAt(pool, i)
    BY <1>1, <1>7, <2>2 DEF Restart
  <2>4. queries' = queries
    BY <1>7 DEF Restart
  <2>5. QED  BY <1>3, <2>3, <2>4, PoolKept
<1>8. QED
  BY <1>4, <1>5, <1>6, <1>7 DEF ReceiverNext

\* The sender gives a batch back to the pool, and nothing in it.
LEMMA FetchKeepsPool ==
  ASSUME PoolInv, FetchReplies
  PROVE  PoolIsClean'
<1> DEFINE pool == held[querybatch_pool]
           old == held[out_local_queue]
<1>1. /\ held \in [Stage -> Seq(Batch)] /\ pool \in Seq(Batch) /\ old \in Seq(Batch)
      /\ querybatch_pool \in Stage
      /\ querybatch_pool # out_local_queue /\ querybatch_pool # query_replies
  BY StageFacts DEF PoolInv, MessageInv, BatchInv
<1>2. held'[querybatch_pool] = pool \o old
  BY <1>1 DEF FetchReplies, AnsweredBatch, PoolWith
<1>3. queries' = [b \in Batch |-> IF b \in ToSet(old) THEN <<>> ELSE queries[b]]
  BY DEF FetchReplies, AnsweredBatch, StartOver
<1> HIDE DEF pool, old
<1>4. ASSUME NEW i \in DOMAIN (pool \o old)
      PROVE  (pool \o old)[i] \in Batch
             /\ ((pool \o old)[i] \in ToSet(pool) \/ (pool \o old)[i] \in ToSet(old))
  <2>1. /\ Len(pool) \in Nat /\ Len(old) \in Nat
        /\ DOMAIN pool = 1..Len(pool) /\ DOMAIN old = 1..Len(old)
        /\ pool \o old \in Seq(Batch)
        /\ Len(pool \o old) = Len(pool) + Len(old)
        /\ \A k \in 1..(Len(pool) + Len(old)) :
             (pool \o old)[k] = IF k <= Len(pool) THEN pool[k] ELSE old[k - Len(pool)]
    BY <1>1, ConcatProperties, LenProperties
  <2>2. i \in 1..(Len(pool) + Len(old))
    BY <2>1, LenProperties
  <2>3. CASE i <= Len(pool)
    BY <1>1, <2>1, <2>2, <2>3 DEF ToSet
  <2>4. CASE ~(i <= Len(pool))
    <3>1. i - Len(pool) \in DOMAIN old
      BY <2>1, <2>2, <2>4
    <3>2. QED  BY <1>1, <2>1, <2>2, <2>4, <3>1 DEF ToSet
  <2>5. QED  BY <2>3, <2>4
<1>5. ASSUME NEW b \in ToSet(pool \o old) PROVE queries'[b] = <<>>
  <2>1. b \in Batch /\ (b \in ToSet(pool) \/ b \in ToSet(old))
    BY <1>4 DEF ToSet
  <2>2. b \in ToSet(pool) => queries[b] = <<>>
    BY DEF PoolInv, PoolIsClean, pool
  <2>3. QED  BY <1>3, <2>1, <2>2
<1>6. QED  BY <1>2, <1>5 DEF PoolIsClean

\* No worker has to do with the pool or the sender's batch, fills one or answers.
LEMMA WorkersKeepOut ==
  ASSUME MessageInv, WorkerNext \/ DatabaseNext
  PROVE  /\ held'[querybatch_pool] = held[querybatch_pool]
         /\ held'[out_local_queue] = held[out_local_queue]
         /\ UNCHANGED <<queries, out_i, arrived, sent, dropped>>
<1>1. /\ held \in [Stage -> Seq(Batch)]
      /\ \A s \in {querybatch_pool, out_local_queue} :
           /\ s \in Stage \ {query_results, result_jobs, query_replies, leaked}
           /\ \A p \in Path : s \notin {msg_queue(p), message_jobs(p), query_queue(p)}
           /\ \A p \in Path, j \in DbJob : s # db_queue(p, j)
  BY StageFacts DEF MessageInv, BatchInv
<1>2. CASE WorkerNext
  <2>1. UNCHANGED <<queries, out_i, arrived, sent, dropped>>
    BY <1>2 DEF WorkerNext, DistributeMessages, MessageJob, MessageFail, DistributeResults,
                ResultJob, ResultJobFail, clients
  <2>2. ASSUME NEW s \in {querybatch_pool, out_local_queue} PROVE held'[s] = held[s]
    BY <1>1, <1>2 DEF WorkerNext, DistributeMessages, MessageJob, MessageFail,
          DistributeResults, ResultJob, ResultJobFail, NextTool, MoveAll, MoveOne
  <2>3. QED  BY <2>1, <2>2
<1>3. CASE DatabaseNext
  <2>1. UNCHANGED <<queries, out_i, arrived, sent, dropped>>
    BY <1>3 DEF DatabaseNext, DatabaseDistribute, DatabaseReads, DatabaseWrites,
                DatabasePart, DatabaseFail, clients
  <2>2. ASSUME NEW s \in {querybatch_pool, out_local_queue} PROVE held'[s] = held[s]
    BY <1>1, <1>3 DEF DatabaseNext, DatabaseDistribute, DatabaseReads, DatabaseWrites,
                      DatabasePart, HandOn, DatabaseFail, Path
  <2>3. QED  BY <2>1, <2>2
<1>4. QED  BY <1>2, <1>3

\* Every step keeps the pool clean.
LEMMA PoolInductive == ASSUME PoolInv, [Next]_vars PROVE PoolInv'
<1>1. MessageInv'
  BY MessagesInductive DEF PoolInv
<1>2. CASE SendReply \/ PeerNotReady \/ NoReplies \/ UNCHANGED vars
  <2>1. held' = held /\ queries' = queries
    BY <1>2 DEF SendReply, PeerNotReady, NoReplies, vars
  <2>2. QED  BY <1>1, <2>1, PoolKept DEF PoolInv
<1>3. CASE WorkerNext \/ DatabaseNext
  BY <1>1, <1>3, WorkersKeepOut, PoolKept DEF PoolInv
<1>4. QED
  BY <1>1, <1>2, <1>3, ReceiverKeepsPool, FetchKeepsPool DEF PoolInv, Next, SenderNext

\* There is no pool to begin with.
LEMMA PoolInitially == Init => PoolInv
<1> SUFFICES ASSUME Init PROVE PoolInv
  OBVIOUS
<1>1. MessageInv
  BY MessagesInitially
<1>2. held[querybatch_pool] \in Seq(Batch)
  BY <1>1, StageFacts DEF MessageInv, BatchInv
<1>3. ASSUME NEW b \in ToSet(held[querybatch_pool]) PROVE queries[b] = <<>>
  <2>1. b \in Batch
    BY <1>2 DEF ToSet
  <2>2. QED  BY <2>1 DEF Init
<1>4. QED  BY <1>1, <1>3 DEF PoolInv, PoolIsClean

\* A batch in querybatch_pool has no query of its last use, whichever tools had it.
THEOREM PoolStaysClean == Spec => []PoolIsClean
<1>1. PoolInv => PoolIsClean
  BY DEF PoolInv
<1>2. PoolInv /\ [Next]_vars => PoolInv'
  BY PoolInductive
<1>3. QED  BY <1>1, <1>2, PoolInitially, PTL DEF Spec

-----------------------------------------------------------------------------
\* The query's reply was sent, or could not be.
Past(q) == sent[q] # 0 \/ q \in dropped

\* The sender is past the k-th query of batch b, or nobody has b any more.
Used(b, k) ==
  \/ Leaked(b)
  \/ held[out_local_queue] # <<>> /\ held[out_local_queue][1] = b /\ k <= out_i

\* A query is in one place of one batch.
InOnePlace ==
  \A b, c \in Batch : \A k \in DOMAIN queries[b], l \in DOMAIN queries[c] :
    queries[b][k] = queries[c][l] /\ queries[b][k] # Partial => b = c /\ k = l

\* What is in a batch, or was answered, has been received.
AllArrived ==
  /\ \A b \in Batch : \A k \in DOMAIN queries[b] :
       queries[b][k] # Partial => queries[b][k] \in arrived
  /\ \A q \in Query : Past(q) => q \in arrived

\* The sender is past the queries that are past.
PastIsUsed ==
  \A b \in Batch : \A k \in DOMAIN queries[b] :
    queries[b][k] # Partial /\ Past(queries[b][k]) => Used(b, k)

Replies == InOnePlace /\ AllArrived /\ PastIsUsed /\ AtMostOneReply
RepliesInv == MessageInv /\ Replies

\* A step that fills no batch and answers none.
LEMMA NothingSent ==
  ASSUME RepliesInv, UNCHANGED <<arrived, sent, dropped>>,
         \A b \in Batch : \A k \in DOMAIN queries'[b] :
           /\ k \in DOMAIN queries[b] /\ queries'[b][k] = queries[b][k]
           /\ Used(b, k) => Used(b, k)'
  PROVE  Replies'
<1>1. \A q : Past(q)' = Past(q)
  BY DEF Past
<1>2. InOnePlace'
  BY DEF RepliesInv, Replies, InOnePlace
<1>3. AllArrived'
  BY <1>1 DEF RepliesInv, Replies, AllArrived
<1>4. PastIsUsed'
  BY <1>1 DEF RepliesInv, Replies, PastIsUsed
<1>5. AtMostOneReply'
  BY DEF RepliesInv, Replies, AtMostOneReply
<1>6. QED  BY <1>2, <1>3, <1>4, <1>5 DEF Replies

\* The sender is where it was.
LEMMA UsedStays ==
  ASSUME RepliesInv, [Next]_vars,
         held'[out_local_queue] = held[out_local_queue], out_i' = out_i
  PROVE  \A b, k : Used(b, k) => Used(b, k)'
BY LeakedStays DEF RepliesInv, MessageInv, Used

\* Steps that leave the queries and the sender alone.
LEMMA QuietReplies ==
  ASSUME RepliesInv, [Next]_vars, held'[out_local_queue] = held[out_local_queue],
         UNCHANGED <<queries, out_i, arrived, sent, dropped>>
  PROVE  Replies'
BY UsedStays, NothingSent

\* A receiver that hands its batch on drops an entry at most.
LEMMA TransferReplies ==
  ASSUME RepliesInv, [Next]_vars, NEW p \in Path, Transfer(p)
  PROVE  Replies'
<1>a. PICK b : b = held[in_local_queue(p)][1]
  OBVIOUS
<1>b. PICK kept : kept = IF make_new[p] THEN queries[b] ELSE Front(queries[b])
  OBVIOUS
<1>0. MessageInv
  BY DEF RepliesInv
<1>1. b \in Batch /\ Head(held[in_local_queue(p)]) = b
  BY <1>a, LocalBatches DEF RepliesInv, MessageInv
<1>2. \A k \in DOMAIN kept : k \in DOMAIN queries[b] /\ kept[k] = queries[b][k]
  BY <1>0, <1>a, <1>b, KeptEntries
<1>3. queries' = [queries EXCEPT ![b] = kept] /\ UNCHANGED <<out_i, arrived, sent, dropped>>
  BY <1>1, <1>b DEF Transfer, CompleteEntries, clients
<1>4. held'[out_local_queue] = held[out_local_queue]
  <2>1. \A s \in Stage \ {querybatch_pool, in_local_queue(p), msg_queue(p)} :
          held'[s] = held[s]
    BY DEF Transfer, RepliesInv, MessageInv, TypeOK
  <2>2. QED  BY <2>1, StageFacts
<1>5. queries'[b] = kept /\ \A c \in Batch \ {b} : queries'[c] = queries[c]
  BY <1>1, <1>3 DEF RepliesInv, MessageInv, TypeOK
<1>6. QED  BY <1>2, <1>3, <1>4, <1>5, UsedStays, NothingSent

\* What is received has not been received before, and is put behind what is there.
LEMMA ReceiveReplies ==
  ASSUME RepliesInv, [Next]_vars, NEW p \in Path, NEW e \in Entry, IntoSlot(p, e),
         e # Partial => e \notin arrived /\ e \in arrived',
         arrived \subseteq arrived', UNCHANGED <<held, out_i, sent, dropped>>
  PROVE  Replies'
<1>a. PICK b : b = held[in_local_queue(p)][1]
  OBVIOUS
<1>b. PICK kept : kept = IF make_new[p] THEN queries[b] ELSE Front(queries[b])
  OBVIOUS
<1>0. MessageInv
  BY DEF RepliesInv
<1>1. b \in Batch /\ Head(held[in_local_queue(p)]) = b
  BY <1>a, LocalBatches DEF RepliesInv, MessageInv
<1>c. \A k \in DOMAIN kept : k \in DOMAIN queries[b] /\ kept[k] = queries[b][k]
  BY <1>0, <1>a, <1>b, KeptEntries
<1>d. kept \in Seq(Entry)
  BY <1>0, <1>a, <1>b, CompleteEntriesFacts
<1>2. /\ kept \in Seq(Entry)
      /\ \A k \in DOMAIN kept : k \in DOMAIN queries[b] /\ kept[k] = queries[b][k]
  BY <1>c, <1>d
<1>3. queries' = [queries EXCEPT ![b] = Append(kept, e)]
  BY <1>1, <1>b DEF IntoSlot, CompleteEntries
<1>4. queries'[b] = Append(kept, e) /\ \A c \in Batch \ {b} : queries'[c] = queries[c]
  BY <1>1, <1>3 DEF RepliesInv, MessageInv, TypeOK
<1>5. \A k \in DOMAIN Append(kept, e) :
        \/ k \in DOMAIN kept /\ Append(kept, e)[k] = kept[k]
        \/ k = Len(kept) + 1 /\ Append(kept, e)[k] = e
  <2>1. /\ Append(kept, e) \in Seq(Entry) /\ Len(Append(kept, e)) = Len(kept) + 1
        /\ \A k \in 1..Len(kept) : Append(kept, e)[k] = kept[k]
        /\ Append(kept, e)[Len(kept) + 1] = e
        /\ Len(kept) \in Nat /\ DOMAIN kept = 1..Len(kept)
    BY <1>2, AppendProperties, LenProperties
  <2>2. DOMAIN Append(kept, e) = 1..(Len(kept) + 1)
    BY <2>1, LenProperties
  <2>3. QED  BY <2>1, <2>2
<1>6. ASSUME NEW c \in Batch, NEW k \in DOMAIN queries'[c]
      PROVE  \/ k \in DOMAIN queries[c] /\ queries'[c][k] = queries[c][k]
             \/ c = b /\ k = Len(kept) + 1 /\ queries'[c][k] = e
  BY <1>2, <1>4, <1>5
<1>7. e # Partial => /\ \A c \in Batch : \A k \in DOMAIN queries[c] : queries[c][k] # e
                     /\ e \in Query /\ ~Past(e)
  BY DEF RepliesInv, Replies, AllArrived, Entry
<1>8. InOnePlace'
  BY <1>6, <1>7 DEF RepliesInv, Replies, InOnePlace
<1>9. \A q : Past(q)' = Past(q)
  BY DEF Past
<1>10. AllArrived'
  BY <1>6, <1>9 DEF RepliesInv, Replies, AllArrived
<1>11. PastIsUsed'
  BY <1>6, <1>7, <1>9, UsedStays DEF RepliesInv, Replies, PastIsUsed
<1>12. AtMostOneReply'
  BY DEF RepliesInv, Replies, AtMostOneReply
<1>13. QED  BY <1>8, <1>10, <1>11, <1>12 DEF Replies

\* The next reply is to a query that was neither answered nor given up before.
LEMMA SendReplies ==
  ASSUME RepliesInv, [Next]_vars, SendReply
  PROVE  Replies'
<1> DEFINE b == held[out_local_queue][1]
           n == out_i + 1
           q == queries[b][n]
<1>0. MessageInv
  BY DEF RepliesInv
<1>1. /\ held[out_local_queue] \in Seq(Batch) /\ held[out_local_queue] # <<>>
      /\ out_local_queue \in Stage /\ out_local_queue # leaked
      /\ out_i \in Nat /\ sent \in [Query -> Nat]
      /\ queries \in [Batch -> Seq(Entry)]
      /\ n <= Len(queries[Head(held[out_local_queue])])
  BY <1>0, StageFacts DEF MessageInv, TypeOK, SendReply, Answering
<1>2. /\ Head(held[out_local_queue]) = b /\ b \in Batch
      /\ 1 \in DOMAIN held[out_local_queue]
  BY <1>1, EmptySeq
<1>3. n \in DOMAIN queries[b] /\ n \in Nat
  BY <1>1, <1>2
<1>4. q \in Query /\ q # Partial
  BY <1>0, <1>2, ReplyIsToAQuery, ConstantsAssumption DEF SendReply, Query
<1>5. ~Leaked(b)
  BY <1>0, <1>1, <1>2, LeakedIsNowhere DEF MessageInv
<1>6. ~Past(q)
  <2>1. ~Used(b, n)
    BY <1>1, <1>5 DEF Used
  <2>2. QED  BY <1>2, <1>3, <1>4, <2>1 DEF RepliesInv, Replies, PastIsUsed
<1>7. /\ out_i' = out_i + 1 /\ UNCHANGED <<held, queries, arrived>>
      /\ \/ sent' = [sent EXCEPT ![q] = sent[q] + 1] /\ dropped' = dropped
         \/ dropped' = dropped \cup {q} /\ sent' = sent
  BY <1>2 DEF SendReply, NextReply
<1>8. q \in arrived
  BY <1>2, <1>3, <1>4 DEF RepliesInv, Replies, AllArrived
<1>9. \A c, k : k \in Nat /\ Used(c, k) => Used(c, k)'
  BY <1>1, <1>7 DEF Used, Leaked
<1>10. \A c, k : c = b /\ k = n => Used(c, k)'
  BY <1>1, <1>7 DEF Used
<1> HIDE DEF q, n, b
<1>11. sent[q] = 0 /\ q \notin dropped
  BY <1>6 DEF Past
<1>12. AtMostOneReply' /\ \A r \in Query \ {q} : Past(r)' = Past(r)
  BY <1>1, <1>4, <1>7, <1>11 DEF RepliesInv, Replies, AtMostOneReply, Past
<1>13. InOnePlace'
  BY <1>7 DEF RepliesInv, Replies, InOnePlace
<1>14. AllArrived'
  BY <1>7, <1>8, <1>12 DEF RepliesInv, Replies, AllArrived
<1>15. PastIsUsed'
  <2> SUFFICES ASSUME NEW c \in Batch, NEW k \in DOMAIN queries[c],
                      NEW e, e = queries[c][k], e # Partial, Past(e)'
               PROVE  Used(c, k)'
    BY <1>7 DEF PastIsUsed
  <2>1. e \in Query /\ k \in Nat
    BY <1>1 DEF Entry
  <2>2. CASE e = q
    <3>0. InOnePlace /\ queries[c][k] = queries[b][n]
      BY <2>2 DEF RepliesInv, Replies, q
    <3>1. c = b /\ k = n
      BY <1>2, <1>3, <3>0 DEF InOnePlace
    <3>2. QED  BY <1>10, <3>1
  <2>3. CASE e # q
    <3>1. Past(e)
      BY <1>12, <2>1, <2>3
    <3>2. QED  BY <1>9, <2>1, <3>1 DEF RepliesInv, Replies, PastIsUsed
  <2>4. QED  BY <2>2, <2>3
<1>16. QED  BY <1>12, <1>13, <1>14, <1>15 DEF Replies

\* The queries the sender is past are gone when it takes another batch.
LEMMA FetchIsFresh ==
  ASSUME RepliesInv, [Next]_vars, FetchReplies
  PROVE  Replies'
<1> DEFINE old == held[out_local_queue]
<1>1. queries \in [Batch -> Seq(Entry)] /\ old \in Seq(Batch)
  BY StageFacts DEF RepliesInv, MessageInv, TypeOK
<1>2. /\ queries' = [b \in Batch |-> IF b \in ToSet(old) THEN <<>> ELSE queries[b]]
      /\ UNCHANGED <<arrived, sent, dropped>>
  BY DEF FetchReplies, AnsweredBatch, StartOver, clients
<1>3. ASSUME NEW b \in Batch, NEW k \in DOMAIN queries'[b]
      PROVE  /\ b \notin ToSet(old)
             /\ k \in DOMAIN queries[b] /\ queries'[b][k] = queries[b][k]
  <2>1. b \notin ToSet(old)
    <3>1. DOMAIN <<>> = {}
      OBVIOUS
    <3>2. b \in ToSet(old) => queries'[b] = <<>>
      BY <1>2
    <3>3. QED  BY <1>3, <3>1, <3>2
  <2>2. queries'[b] = queries[b]
    BY <1>2, <2>1
  <2>3. QED  BY <2>1, <2>2
<1>4. ASSUME NEW b \in Batch, NEW k \in DOMAIN queries'[b], Used(b, k)
      PROVE  Used(b, k)'
  <2>1. old # <<>> => old[1] \in ToSet(old)
    BY <1>1, EmptySeq DEF ToSet
  <2>2. Leaked(b)
    BY <1>3, <1>4, <2>1 DEF Used
  <2>3. QED  BY <2>2, LeakedStays DEF RepliesInv, MessageInv, Used
<1>5. QED  BY <1>2, <1>3, <1>4, NothingSent

\* What the sender is past in a batch that a restart forgets, nobody meets again.
LEMMA RestartForgets ==
  ASSUME RepliesInv, [Next]_vars, NEW p \in Path, Restart(p)
  PROVE  Replies'
<1> DEFINE out == held[out_local_queue]
<1>1. /\ held \in [Stage -> Seq(Batch)] /\ leaked \in Stage /\ out_local_queue \in Stage
      /\ held[in_local_queue(p)] \in Seq(Batch) /\ out \in Seq(Batch)
      /\ leaked \notin {querybatch_pool, in_local_queue(p), out_local_queue}
      /\ out_local_queue \notin {querybatch_pool, in_local_queue(p)}
  BY StageFacts DEF RepliesInv, MessageInv, TypeOK
<1>2. UNCHANGED <<queries, arrived, sent, dropped>>
  BY DEF Restart, clients
<1>3. Forgotten(p) = [held EXCEPT ![leaked] = held[leaked] \o Private(p)]
  BY DEF Forgotten
<1>4. DOMAIN Forgotten(p) = Stage /\ Forgotten(p)[leaked] = held[leaked] \o Private(p)
  BY <1>1, <1>3
<1>5. CASE p = "read"
  <2>1. Private(p) = held[in_local_queue(p)] \o out
    BY <1>5 DEF Private
  <2>2. held'[leaked] = held[leaked] \o (held[in_local_queue(p)] \o out)
    BY <1>1, <1>4, <2>1 DEF Restart
  <2> DEFINE x == held[leaked]
             y == held[in_local_queue(p)]
  <2> HIDE DEF out, x, y
  <2>3. ASSUME out # <<>> PROVE \E i \in DOMAIN (x \o (y \o out)) : (x \o (y \o out))[i] = out[1]
    <3>1. x \in Seq(Batch) /\ y \in Seq(Batch) /\ out \in Seq(Batch)
      BY <1>1 DEF x, y, out
    <3>2. Len(x) \in Nat /\ Len(y) \in Nat /\ Len(out) \in Nat /\ 1 <= Len(out)
      BY <2>3, <3>1, EmptySeq, LenProperties
    <3>3. /\ y \o out \in Seq(Batch) /\ Len(y \o out) = Len(y) + Len(out)
          /\ (y \o out)[Len(y) + 1] = out[Len(y) + 1 - Len(y)]
      BY <3>1, <3>2, ConcatProperties
    <3>4. /\ x \o (y \o out) \in Seq(Batch)
          /\ Len(x \o (y \o out)) = Len(x) + (Len(y) + Len(out))
          /\ (x \o (y \o out))[Len(x) + (Len(y) + 1)]
               = (y \o out)[Len(x) + (Len(y) + 1) - Len(x)]
      BY <3>1, <3>2, <3>3, ConcatProperties
    <3>5. Len(x) + (Len(y) + 1) \in DOMAIN (x \o (y \o out))
      BY <3>2, <3>4, LenProperties
    <3>6. (x \o (y \o out))[Len(x) + (Len(y) + 1)] = out[1]
      BY <3>2, <3>3, <3>4
    <3>7. QED  BY <3>5, <3>6
  <2>4. ASSUME NEW b, NEW k, Used(b, k) PROVE Used(b, k)'
    <3>1. CASE Leaked(b)
      BY <3>1, LeakedStays DEF RepliesInv, MessageInv, Used
    <3>2. CASE ~Leaked(b)
      <4>1. out # <<>> /\ out[1] = b
        BY <2>4, <3>2 DEF Used, out
      <4>2. Leaked(b)'
        BY <2>2, <2>3, <4>1 DEF Leaked, x, y, out
      <4>3. QED  BY <4>2 DEF Used
    <3>3. QED  BY <3>1, <3>2
  <2>5. QED  BY <1>2, <2>4, NothingSent
<1>6. CASE p = "write"
  <2>1. held'[out_local_queue] = out /\ out_i' = out_i
    BY <1>1, <1>4, <1>6 DEF Restart
  <2>2. QED  BY <1>2, <2>1, QuietReplies
<1>7. QED  BY <1>5, <1>6 DEF Path

\* Every step keeps the replies and their queries in order.
LEMMA RepliesInductive == ASSUME RepliesInv, [Next]_vars PROVE RepliesInv'
<1>1. SUFFICES Replies'
  BY MessagesInductive DEF RepliesInv
<1>2. ASSUME NEW p \in Path, ReceiverNext(p) PROVE Replies'
  <2>1. CASE \E q \in Query : Receive(p, q)
    <3>1. PICK q \in Query : Receive(p, q)
      BY <2>1
    <3>2. /\ q \in Entry /\ IntoSlot(p, q) /\ q \notin arrived /\ q \in arrived'
          /\ arrived \subseteq arrived' /\ UNCHANGED <<held, out_i, sent, dropped>>
      BY <3>1 DEF Receive, Entry, clients
    <3>3. QED  BY <3>2, ReceiveReplies
  <2>2. CASE ReceiveBad(p)
    <3>1. /\ Partial \in Entry /\ IntoSlot(p, Partial)
          /\ arrived \subseteq arrived' /\ UNCHANGED <<held, out_i, sent, dropped>>
      BY <2>2 DEF ReceiveBad, Entry, clients
    <3>2. QED  BY <3>1, ReceiveReplies
  <2>3. CASE NoTransfer(p) \/ NoMessage(p) \/ PollError(p)
    BY <2>3, QuietReplies DEF NoTransfer, NoMessage, PollError, clients
  <2>4. QED  BY <1>2, <2>1, <2>2, <2>3, TransferReplies DEF ReceiverNext
<1>3. CASE PeerNotReady \/ NoReplies \/ UNCHANGED vars
  BY <1>3, QuietReplies DEF PeerNotReady, NoReplies, vars, clients
<1>4. CASE WorkerNext \/ DatabaseNext
  BY <1>4, WorkersKeepOut, QuietReplies DEF RepliesInv
<1>5. QED
  BY <1>2, <1>3, <1>4, SendReplies, FetchIsFresh, RestartForgets DEF Next, SenderNext

\* Nothing is received or answered yet.
LEMMA RepliesInitially == Init => RepliesInv
<1> SUFFICES ASSUME Init PROVE RepliesInv
  OBVIOUS
<1>1. /\ queries = [b \in Batch |-> <<>>] /\ arrived = {}
      /\ sent = [q \in Query |-> 0] /\ dropped = {}
  BY DEF Init
<1>2. \A b \in Batch : DOMAIN queries[b] = {}
  BY <1>1
<1>3. \A q \in Query : ~Past(q)
  BY <1>1 DEF Past
<1>4. InOnePlace /\ AllArrived /\ PastIsUsed
  BY <1>2, <1>3 DEF InOnePlace, AllArrived, PastIsUsed
<1>5. AtMostOneReply
  BY <1>1 DEF AtMostOneReply
<1>6. QED  BY <1>4, <1>5, MessagesInitially DEF RepliesInv, Replies

\* No client is answered twice, or answered after its reply was given up, whatever is
\* recycled and restarted meanwhile.
THEOREM RepliesAreSentOnce == Spec => []AtMostOneReply
<1>1. RepliesInv => AtMostOneReply
  BY DEF RepliesInv, Replies
<1>2. RepliesInv /\ [Next]_vars => RepliesInv'
  BY RepliesInductive
<1>3. QED  BY <1>1, <1>2, RepliesInitially, PTL DEF Spec

-----------------------------------------------------------------------------
\* What concatenating, appending and removing do to the members of a sequence.
LEMMA MembersOfConcat ==
  ASSUME NEW S, NEW x \in Seq(S), NEW y \in Seq(S)
  PROVE  ToSet(x \o y) = ToSet(x) \cup ToSet(y)
<1>1. /\ x \o y \in Seq(S) /\ Len(x \o y) = Len(x) + Len(y)
      /\ Len(x) \in Nat /\ Len(y) \in Nat
      /\ DOMAIN x = 1..Len(x) /\ DOMAIN y = 1..Len(y)
      /\ DOMAIN (x \o y) = 1..(Len(x) + Len(y))
      /\ \A i \in 1..(Len(x) + Len(y)) :
           (x \o y)[i] = IF i <= Len(x) THEN x[i] ELSE y[i - Len(x)]
  BY ConcatProperties, LenProperties
<1>2. ASSUME NEW i \in DOMAIN (x \o y)
      PROVE  (x \o y)[i] \in ToSet(x) \cup ToSet(y)
  BY <1>1 DEF ToSet
<1>3. ASSUME NEW i \in DOMAIN x PROVE x[i] \in ToSet(x \o y)
  <2>1. i \in DOMAIN (x \o y) /\ (x \o y)[i] = x[i]
    BY <1>1
  <2>2. QED  BY <2>1 DEF ToSet
<1>4. ASSUME NEW i \in DOMAIN y PROVE y[i] \in ToSet(x \o y)
  <2>1. Len(x) + i \in DOMAIN (x \o y) /\ (x \o y)[Len(x) + i] = y[i]
    BY <1>1
  <2>2. QED  BY <2>1 DEF ToSet
<1>5. QED  BY <1>2, <1>3, <1>4 DEF ToSet

LEMMA MembersOfAppend ==
  ASSUME NEW S, NEW x \in Seq(S), NEW e \in S
  PROVE  ToSet(Append(x, e)) = ToSet(x) \cup {e}
<1>1. /\ Append(x, e) \in Seq(S) /\ Len(Append(x, e)) = Len(x) + 1
      /\ Len(x) \in Nat /\ DOMAIN x = 1..Len(x)
      /\ DOMAIN Append(x, e) = 1..(Len(x) + 1)
      /\ \A i \in 1..Len(x) : Append(x, e)[i] = x[i]
      /\ Append(x, e)[Len(x) + 1] = e
  BY AppendProperties, LenProperties
<1>2. ASSUME NEW i \in DOMAIN Append(x, e)
      PROVE  Append(x, e)[i] \in ToSet(x) \cup {e}
  BY <1>1 DEF ToSet
<1>3. ASSUME NEW i \in DOMAIN x PROVE x[i] \in ToSet(Append(x, e))
  <2>1. i \in DOMAIN Append(x, e) /\ Append(x, e)[i] = x[i]
    BY <1>1
  <2>2. QED  BY <2>1 DEF ToSet
<1>4. e \in ToSet(Append(x, e))
  <2>1. Len(x) + 1 \in DOMAIN Append(x, e)
    BY <1>1
  <2>2. QED  BY <1>1, <2>1 DEF ToSet
<1>5. QED  BY <1>2, <1>3, <1>4 DEF ToSet

\* From where to where a step may take a batch, and which step, where it matters.
Feeds(t, s) ==
  \/ \E p \in Path :
       \/ t = querybatch_pool /\ s = in_local_queue(p)
       \/ t = in_local_queue(p) /\ s = msg_queue(p) /\ Transfer(p)
       \/ t = msg_queue(p) /\ s = message_jobs(p)
       \/ t = message_jobs(p) /\ s = query_queue(p)
       \/ \E j \in DbJob : \/ t = query_queue(p) /\ s = db_queue(p, j)
                           \/ /\ t = db_queue(p, j) /\ s = query_results
                              /\ QueriesIn(t) \subseteq done'
  \/ t = query_results /\ s = result_jobs
  \/ t = result_jobs /\ s = query_replies
  \/ t = query_replies /\ s = out_local_queue
  \/ t = out_local_queue /\ s = querybatch_pool
  \/ s = leaked

\* What stage s has after a step, it had before, or was given by the stage before it;
\* and a receiver may have created it.
Flows(s) ==
  \A b \in ToSet(held'[s]) :
    \/ b \in ToSet(held[s])
    \/ \E t \in Stage : Feeds(t, s) /\ b \in ToSet(held[t])
    \/ b \notin Created /\ \E p \in Path : s = in_local_queue(p)

LEMMA MoveAllFlows ==
  ASSUME held \in [Stage -> Seq(Batch)], NEW t \in Stage, NEW u \in Stage, t # u,
         Feeds(t, u), MoveAll(t, u)
  PROVE  \A s \in Stage : Flows(s)
<1>1. /\ held'[t] = <<>> /\ held'[u] = held[u] \o held[t]
      /\ \A s \in Stage \ {t, u} : held'[s] = held[s]
  BY DEF MoveAll
<1>2. ToSet(held'[u]) = ToSet(held[u]) \cup ToSet(held[t]) /\ ToSet(held'[t]) = {}
  <2>1. ToSet(<<>>) = {}
    BY DEF ToSet
  <2>2. QED  BY <1>1, <2>1, MembersOfConcat
<1>3. QED  BY <1>1, <1>2 DEF Flows

LEMMA MoveOneFlows ==
  ASSUME held \in [Stage -> Seq(Batch)], NEW t \in Stage, NEW u \in Stage, t # u,
         Feeds(t, u), NEW i \in DOMAIN held[t], MoveOne(t, i, u)
  PROVE  \A s \in Stage : Flows(s)
<1>1. /\ held'[t] = RemoveAt(held[t], i) /\ held'[u] = Append(held[u], held[t][i])
      /\ \A s \in Stage \ {t, u} : held'[s] = held[s]
  BY DEF MoveOne
<1>2. held[t][i] \in Batch /\ held[t][i] \in ToSet(held[t])
  BY DEF ToSet
<1>3. /\ ToSet(held'[u]) = ToSet(held[u]) \cup {held[t][i]}
      /\ ToSet(held'[t]) \subseteq ToSet(held[t])
  BY <1>1, <1>2, MembersOfAppend, TakenFromPool
<1>4. QED  BY <1>1, <1>2, <1>3 DEF Flows

\* Stages are fed by the one before them.
LEMMA FeedFacts ==
  /\ Feeds(query_results, result_jobs) /\ Feeds(result_jobs, query_replies)
  /\ Feeds(query_replies, out_local_queue) /\ Feeds(out_local_queue, querybatch_pool)
  /\ \A t : Feeds(t, leaked)
  /\ \A p \in Path :
       /\ Feeds(querybatch_pool, in_local_queue(p))
       /\ Transfer(p) => Feeds(in_local_queue(p), msg_queue(p))
       /\ Feeds(msg_queue(p), message_jobs(p))
       /\ Feeds(message_jobs(p), query_queue(p))
       /\ \A j \in DbJob : /\ Feeds(query_queue(p), db_queue(p, j))
                           /\ QueriesIn(db_queue(p, j)) \subseteq done'
                                => Feeds(db_queue(p, j), query_results)
BY DEF Feeds

\* A stage that is as it was.
LEMMA SameFlows == \A s : held'[s] = held[s] => Flows(s)
BY DEF Flows

\* Batches only go on along the pipeline, or to nobody.
LEMMA BatchesFlow ==
  ASSUME BatchInv, [Next]_vars
  PROVE  \A s \in Stage : Flows(s)
<1>0. held \in [Stage -> Seq(Batch)] /\ \A s \in Stage : held[s] \in Seq(Batch)
  BY DEF BatchInv
<1>e. ToSet(<<>>) = {} /\ \A x : ToSet(<<x>>) = {x}
  BY DEF ToSet
<1>1. ASSUME NEW p \in Path, Transfer(p) PROVE \A s \in Stage : Flows(s)
  <2> DEFINE local == in_local_queue(p)
             b == held[local][1]
  <2>1. /\ local \in Stage /\ msg_queue(p) \in Stage /\ querybatch_pool \in Stage
        /\ local # msg_queue(p) /\ local # querybatch_pool
        /\ msg_queue(p) # querybatch_pool
    BY StageFacts
  <2>2. b \in Batch /\ Head(held[local]) = b /\ b \in ToSet(held[local])
    BY LocalBatches DEF ToSet
  <2>3. /\ held'[msg_queue(p)] = Append(held[msg_queue(p)], b)
        /\ \A s \in Stage \ {querybatch_pool, local, msg_queue(p)} : held'[s] = held[s]
    BY <1>0, <1>1, <2>1, <2>2 DEF Transfer
  <2>4. Flows(msg_queue(p))
    <3>1. ToSet(held'[msg_queue(p)]) = ToSet(held[msg_queue(p)]) \cup {b}
      BY <1>0, <2>1, <2>2, <2>3, MembersOfAppend
    <3>2. QED  BY <1>1, <2>1, <2>2, <3>1, FeedFacts DEF Flows
  <2>5. /\ ToSet(held'[querybatch_pool]) \subseteq ToSet(held[querybatch_pool])
        /\ \A c \in ToSet(held'[local]) : c \in ToSet(held[querybatch_pool]) \/ c \notin Created
    <3>1. CASE \E i \in DOMAIN held[querybatch_pool] :
                 held' = [held EXCEPT
                       ![querybatch_pool] = RemoveAt(@, i),
                       ![local] = <<held[querybatch_pool][i]>>,
                       ![msg_queue(p)]    = Append(@, Head(held[local]))]
      <4>1. PICK i \in DOMAIN held[querybatch_pool] :
                 held' = [held EXCEPT
                       ![querybatch_pool] = RemoveAt(@, i),
                       ![local] = <<held[querybatch_pool][i]>>,
                       ![msg_queue(p)]    = Append(@, Head(held[local]))]
        BY <3>1
      <4>2. /\ held'[querybatch_pool] = RemoveAt(held[querybatch_pool], i)
            /\ held'[local] = <<held[querybatch_pool][i]>>
        BY <1>0, <2>1, <4>1
      <4>3. held[querybatch_pool][i] \in ToSet(held[querybatch_pool])
        BY DEF ToSet
      <4>4. QED  BY <1>0, <1>e, <2>1, <4>2, <4>3, TakenFromPool
    <3>2. CASE \E new \in Batch \ Created :
                 held' = [held EXCEPT
                       ![local] = <<new>>,
                       ![msg_queue(p)]    = Append(@, Head(held[local]))]
      <4>1. PICK new \in Batch \ Created :
                 held' = [held EXCEPT
                       ![local] = <<new>>,
                       ![msg_queue(p)]    = Append(@, Head(held[local]))]
        BY <3>2
      <4>2. held'[querybatch_pool] = held[querybatch_pool] /\ held'[local] = <<new>>
        BY <1>0, <2>1, <4>1
      <4>3. QED  BY <1>e, <4>2
    <3>3. QED  BY <1>1, <3>1, <3>2 DEF Transfer
  <2>6. Flows(querybatch_pool) /\ Flows(local)
    BY <2>1, <2>5, FeedFacts DEF Flows
  <2>7. QED  BY <2>3, <2>4, <2>6, SameFlows
<1>2. ASSUME NEW p \in Path, Restart(p) PROVE \A s \in Stage : Flows(s)
  <2> DEFINE local == in_local_queue(p)
             h == Forgotten(p)
             out == IF p = "read" THEN <<>> ELSE held[out_local_queue]
  <2>1. /\ local \in Stage /\ out_local_queue \in Stage /\ querybatch_pool \in Stage
        /\ leaked \in Stage
        /\ local # leaked /\ local # querybatch_pool /\ local # out_local_queue
        /\ leaked # querybatch_pool /\ leaked # out_local_queue
        /\ querybatch_pool # out_local_queue
    BY StageFacts
  <2>2. Private(p) \in Seq(Batch)
        /\ ToSet(Private(p)) \subseteq ToSet(held[local]) \cup ToSet(held[out_local_queue])
    <3>1. CASE p = "read"
      BY <1>0, <2>1, <3>1, MembersOfConcat DEF Private
    <3>2. CASE p # "read"
      BY <1>0, <1>e, <2>1, <3>2, MembersOfConcat DEF Private
    <3>3. QED  BY <3>1, <3>2
  <2>3. /\ h \in [Stage -> Seq(Batch)] /\ h[leaked] = held[leaked] \o Private(p)
        /\ \A s \in Stage \ {leaked} : h[s] = held[s]
    BY <1>0, <2>1, <2>2 DEF Forgotten
  <2> HIDE DEF h
  <2>4. /\ held'[leaked] = h[leaked] /\ held'[out_local_queue] = out
        /\ \A s \in Stage \ {querybatch_pool, local, leaked, out_local_queue} :
             held'[s] = held[s]
    BY <1>2, <2>1, <2>3 DEF Restart, h
  <2>5. /\ ToSet(held'[querybatch_pool]) \subseteq ToSet(held[querybatch_pool])
        /\ \A c \in ToSet(held'[local]) : c \in ToSet(held[querybatch_pool]) \/ c \notin Created
    <3>0. h[querybatch_pool] = held[querybatch_pool]
      BY <2>1, <2>3
    <3> HIDE DEF out
    <3>1. CASE \E i \in DOMAIN h[querybatch_pool] :
                 held' = [h EXCEPT ![querybatch_pool] = RemoveAt(@, i),
                                   ![local] = <<h[querybatch_pool][i]>>,
                                   ![out_local_queue] = out]
      <4>1. PICK i \in DOMAIN h[querybatch_pool] :
                 held' = [h EXCEPT ![querybatch_pool] = RemoveAt(@, i),
                                   ![local] = <<h[querybatch_pool][i]>>,
                                   ![out_local_queue] = out]
        BY <3>1
      <4>2. /\ held'[querybatch_pool] = RemoveAt(held[querybatch_pool], i)
            /\ held'[local] = <<held[querybatch_pool][i]>>
        BY <2>1, <2>3, <3>0, <4>1
      <4>3. i \in DOMAIN held[querybatch_pool]
            /\ held[querybatch_pool][i] \in ToSet(held[querybatch_pool])
        BY <3>0 DEF ToSet
      <4>4. QED  BY <1>0, <1>e, <2>1, <4>2, <4>3, TakenFromPool
    <3>2. CASE \E new \in Batch \ Created :
                 held' = [h EXCEPT ![local] = <<new>>, ![out_local_queue] = out]
      <4>1. PICK new \in Batch \ Created :
                 held' = [h EXCEPT ![local] = <<new>>, ![out_local_queue] = out]
        BY <3>2
      <4>2. held'[querybatch_pool] = held[querybatch_pool] /\ held'[local] = <<new>>
        BY <2>1, <2>3, <4>1
      <4>3. QED  BY <1>e, <4>2
    <3>3. QED  BY <1>2, <3>1, <3>2 DEF Restart, h, out
  <2>6. Flows(querybatch_pool) /\ Flows(local)
    BY <2>1, <2>5, FeedFacts DEF Flows
  <2>7. Flows(out_local_queue)
    BY <1>e, <2>4 DEF Flows
  <2>8. Flows(leaked)
    <3>1. ToSet(held'[leaked]) = ToSet(held[leaked]) \cup ToSet(Private(p))
      BY <1>0, <2>1, <2>2, <2>3, <2>4, MembersOfConcat
    <3>2. QED  BY <2>1, <2>2, <3>1, FeedFacts DEF Flows
  <2>9. QED  BY <2>4, <2>6, <2>7, <2>8, SameFlows
<1>3. CASE FetchReplies
  <2>1. /\ out_local_queue \in Stage /\ querybatch_pool \in Stage /\ query_replies \in Stage
        /\ out_local_queue # querybatch_pool /\ out_local_queue # query_replies
        /\ querybatch_pool # query_replies
    BY StageFacts
  <2>2. /\ held'[querybatch_pool] = held[querybatch_pool] \o held[out_local_queue]
        /\ held'[out_local_queue] = <<Head(held[query_replies])>>
        /\ held'[query_replies] = Tail(held[query_replies])
        /\ \A s \in Stage \ {out_local_queue, querybatch_pool, query_replies} :
             held'[s] = held[s]
    BY <1>0, <1>3, <2>1 DEF FetchReplies, AnsweredBatch, PoolWith
  <2>3. Flows(querybatch_pool)
    <3>1. ToSet(held'[querybatch_pool])
            = ToSet(held[querybatch_pool]) \cup ToSet(held[out_local_queue])
      BY <1>0, <2>1, <2>2, MembersOfConcat
    <3>2. QED  BY <2>1, <3>1, FeedFacts DEF Flows
  <2>4. /\ Head(held[query_replies]) \in ToSet(held[query_replies])
        /\ ToSet(Tail(held[query_replies])) \subseteq ToSet(held[query_replies])
    <3> DEFINE x == held[query_replies]
    <3>1. x \in Seq(Batch) /\ x # <<>>
      BY <1>0, <1>3, <2>1 DEF FetchReplies
    <3> HIDE DEF x
    <3>2. /\ Head(x) = x[1] /\ 1 \in DOMAIN x
          /\ \A k \in DOMAIN Tail(x) : k + 1 \in DOMAIN x /\ Tail(x)[k] = x[k + 1]
      BY <3>1, HeadTailProperties, EmptySeq
    <3>3. Head(x) \in ToSet(x) /\ ToSet(Tail(x)) \subseteq ToSet(x)
      BY <3>2 DEF ToSet
    <3>4. QED  BY <3>3 DEF x
  <2>5. Flows(out_local_queue) /\ Flows(query_replies)
    BY <1>e, <2>1, <2>2, <2>4, FeedFacts DEF Flows
  <2>6. QED  BY <2>2, <2>3, <2>5, SameFlows
<1>4. ASSUME NEW p \in Path, DistributeMessages(p) \/ MessageJob(p) \/ MessageFail(p)
      PROVE  \A s \in Stage : Flows(s)
  BY <1>0, <1>4, StageFacts, FeedFacts, MoveAllFlows, MoveOneFlows
     DEF DistributeMessages, MessageJob, NextTool, MessageFail
<1>5. CASE DistributeResults \/ ResultJob \/ ResultJobFail
  BY <1>0, <1>5, StageFacts, FeedFacts, MoveAllFlows, MoveOneFlows
     DEF DistributeResults, ResultJob, ResultJobFail
<1>6. ASSUME NEW j \in DbJob, DatabaseDistribute(j) PROVE \A s \in Stage : Flows(s)
  <2> DEFINE wq == query_queue("write")
             rq == query_queue("read")
             wdb == db_queue("write", j)
             rdb == db_queue("read", j)
  <2>1. /\ wq \in Stage /\ rq \in Stage /\ wdb \in Stage /\ rdb \in Stage
        /\ wq # rq /\ wdb # rdb /\ wq # wdb /\ wq # rdb /\ rq # wdb /\ rq # rdb
        /\ Feeds(wq, wdb) /\ Feeds(rq, rdb)
    BY StageFacts, StageParameters, FeedFacts DEF Path
  <2>2. held' = [held EXCEPT ![wdb] = held[wq], ![wq] = <<>>,
                             ![rdb] = held[rq], ![rq] = <<>>]
    BY <1>6 DEF DatabaseDistribute
  <2> HIDE DEF wq, rq, wdb, rdb
  <2>3. QED  BY <1>0, <1>e, <2>1, <2>2 DEF Flows
<1>7. ASSUME NEW j \in DbJob, DatabaseReads(j) \/ DatabaseWrites(j)
      PROVE  \A s \in Stage : Flows(s)
  <2>1. PICK p \in Path, next \in {"writes", "idle"} : DatabasePart(p, j, next)
    BY <1>7 DEF DatabaseReads, DatabaseWrites, Path
  <2>2. CASE held[db_queue(p, j)] # <<>>
    BY <1>0, <2>1, <2>2, StageFacts, FeedFacts, MoveAllFlows DEF DatabasePart, HandOn, MoveAll
  <2>3. CASE held[db_queue(p, j)] = <<>>
    <3>1. held[query_results] \o <<>> = held[query_results]
      BY <1>0, StageFacts, ConcatEmptySeq
    <3>2. \A s \in Stage : held'[s] = held[s]
      BY <1>0, <2>1, <2>3, <3>1, StageFacts DEF DatabasePart, HandOn
    <3>3. QED  BY <3>2, SameFlows
  <2>4. QED  BY <2>2, <2>3
<1>8. ASSUME NEW j \in DbJob, DatabaseFail(j) PROVE \A s \in Stage : Flows(s)
  <2> DEFINE wdb == db_queue("write", j)
             rdb == db_queue("read", j)
  <2>1. /\ wdb \in Stage /\ rdb \in Stage /\ leaked \in Stage
        /\ wdb # rdb /\ wdb # leaked /\ rdb # leaked
    BY StageFacts, StageParameters DEF Path
  <2>2. held' = [held EXCEPT ![rdb] = <<>>, ![wdb] = <<>>,
                             ![leaked] = held[leaked] \o held[rdb] \o held[wdb]]
    BY <1>8 DEF DatabaseFail
  <2> HIDE DEF wdb, rdb
  <2>3. ToSet(held'[leaked]) = ToSet(held[leaked]) \cup ToSet(held[rdb]) \cup ToSet(held[wdb])
    <3> DEFINE x == held[leaked]
               y == held[rdb]
               z == held[wdb]
    <3>1. x \in Seq(Batch) /\ y \in Seq(Batch) /\ z \in Seq(Batch)
      BY <1>0, <2>1
    <3>2. held'[leaked] = x \o y \o z
      BY <1>0, <2>1, <2>2
    <3> HIDE DEF x, y, z
    <3>3. x \o y \in Seq(Batch) /\ ToSet(x \o y) = ToSet(x) \cup ToSet(y)
      BY <3>1, MembersOfConcat
    <3>4. ToSet(x \o y \o z) = ToSet(x \o y) \cup ToSet(z)
      <4>1. ASSUME NEW u \in Seq(Batch) PROVE ToSet(u \o z) = ToSet(u) \cup ToSet(z)
        BY <3>1, MembersOfConcat
      <4>2. QED  BY <3>3, <4>1
    <3>5. ToSet(held'[leaked]) = ToSet(x) \cup ToSet(y) \cup ToSet(z)
      BY <3>2, <3>3, <3>4
    <3>6. QED  BY <3>5 DEF x, y, z
  <2>4. /\ held'[wdb] = <<>> /\ held'[rdb] = <<>>
        /\ \A s \in Stage \ {wdb, rdb, leaked} : held'[s] = held[s]
    BY <1>0, <2>1, <2>2
  <2>5. Flows(leaked) /\ Flows(wdb) /\ Flows(rdb)
    BY <1>e, <2>1, <2>3, <2>4, FeedFacts DEF Flows
  <2>6. QED  BY <2>4, <2>5, SameFlows
<1>9. ASSUME held' = held PROVE \A s \in Stage : Flows(s)
  BY <1>9, SameFlows
<1>10. ASSUME NEW p \in Path, ReceiverNext(p) PROVE \A s \in Stage : Flows(s)
  BY <1>1, <1>9, <1>10 DEF ReceiverNext, NoTransfer, Receive, ReceiveBad, NoMessage, PollError
<1>11. CASE SenderNext
  BY <1>3, <1>9, <1>11 DEF SenderNext, SendReply, PeerNotReady, NoReplies
<1>12. CASE WorkerNext
  BY <1>4, <1>5, <1>12 DEF WorkerNext
<1>13. CASE DatabaseNext
  BY <1>6, <1>7, <1>8, <1>13 DEF DatabaseNext
<1>14. CASE UNCHANGED vars
  BY <1>9, <1>14 DEF vars
<1>15. QED  BY <1>2, <1>10, <1>11, <1>12, <1>13, <1>14 DEF Next

\* The batch receiver p is filling.
Local(p) == held[in_local_queue(p)][1]

\* What a receiver keeps of its batch, and what it adds to it.
LEMMA FilledByReceiver ==
  ASSUME MessageInv, NEW p \in Path, ReceiverNext(p)
  PROVE  \/ queries' = queries
         \/ /\ \A b \in Batch \ {Local(p)} : queries'[b] = queries[b]
            /\ ToSet(queries'[Local(p)])
                 \subseteq ToSet(queries[Local(p)]) \cup QueryOf(p) \cup {Partial}
<1> DEFINE b == held[in_local_queue(p)][1]
           kept == IF make_new[p] THEN queries[b] ELSE Front(queries[b])
<1>1. b \in Batch /\ Head(held[in_local_queue(p)]) = b /\ b = Local(p)
  BY LocalBatches DEF MessageInv, Local
<1>2. queries \in [Batch -> Seq(Entry)] /\ QueryOf(p) \subseteq Entry /\ Partial \in Entry
  BY DEF MessageInv, TypeOK, QueryOf, Entry, Query
<1>3. kept \in Seq(Entry) /\ ToSet(kept) \subseteq ToSet(queries[b])
  <2>1. kept \in Seq(Entry)
        /\ \A k \in DOMAIN kept : k \in DOMAIN queries[b] /\ kept[k] = queries[b][k]
    BY CompleteEntriesFacts, SMTT(60)
  <2> HIDE DEF kept
  <2>2. QED  BY <2>1 DEF ToSet
<1>4. CompleteEntries(p, b) = kept
  BY DEF CompleteEntries
<1> HIDE DEF b, kept
<1>5. ASSUME NEW e \in QueryOf(p) \cup {Partial}, IntoSlot(p, e)
      PROVE  /\ \A c \in Batch \ {b} : queries'[c] = queries[c]
             /\ ToSet(queries'[b]) \subseteq ToSet(queries[b]) \cup QueryOf(p) \cup {Partial}
  <2>1. queries' = [queries EXCEPT ![b] = Append(kept, e)]
    BY <1>1, <1>4, <1>5 DEF IntoSlot
  <2>2. ToSet(Append(kept, e)) = ToSet(kept) \cup {e}
    BY <1>2, <1>3, MembersOfAppend
  <2>3. QED  BY <1>1, <1>2, <1>3, <2>1, <2>2
<1>6. CASE Transfer(p)
  <2>1. queries' = [queries EXCEPT ![b] = kept]
    BY <1>1, <1>4, <1>6 DEF Transfer
  <2>2. QED  BY <1>1, <1>2, <1>3, <2>1
<1>7. CASE (\E q \in Query : Receive(p, q)) \/ ReceiveBad(p)
  <2>1. \E e \in QueryOf(p) \cup {Partial} : IntoSlot(p, e)
    BY <1>7 DEF Receive, ReceiveBad
  <2>2. QED  BY <1>1, <1>5, <2>1
<1>8. CASE NoTransfer(p) \/ NoMessage(p) \/ PollError(p)
  BY <1>8 DEF NoTransfer, NoMessage, PollError
<1>9. QED  BY <1>6, <1>7, <1>8 DEF ReceiverNext

\* Who changes a batch: the receiver that is filling it, or the sender that empties it.
LEMMA WhoTouches ==
  ASSUME MessageInv, [Next]_vars, NEW b \in Batch
  PROVE  \/ queries'[b] = queries[b]
         \/ \E p \in Path :
              /\ b = Local(p)
              /\ ToSet(queries'[b]) \subseteq ToSet(queries[b]) \cup QueryOf(p) \cup {Partial}
         \/ b \in ToSet(held[out_local_queue]) /\ queries'[b] = <<>>
<1>1. ASSUME NEW p \in Path, ReceiverNext(p)
      PROVE  \/ queries'[b] = queries[b]
             \/ /\ b = Local(p)
                /\ ToSet(queries'[b]) \subseteq ToSet(queries[b]) \cup QueryOf(p) \cup {Partial}
  BY <1>1, FilledByReceiver
<1>2. ASSUME NEW p \in Path, Restart(p) PROVE queries' = queries
  BY <1>2 DEF Restart
<1>3. CASE FetchReplies
  <2>1. queries' = [c \in Batch |-> IF c \in ToSet(held[out_local_queue])
                                    THEN <<>> ELSE queries[c]]
    BY <1>3 DEF FetchReplies, AnsweredBatch, StartOver
  <2>2. QED  BY <2>1
<1>4. CASE SendReply \/ PeerNotReady \/ NoReplies \/ UNCHANGED vars
  BY <1>4 DEF SendReply, PeerNotReady, NoReplies, vars
<1>5. CASE WorkerNext \/ DatabaseNext
  BY <1>5, WorkersKeepOut
<1>6. QED  BY <1>1, <1>2, <1>3, <1>4, <1>5 DEF Next, SenderNext

\* A batch on its way through the tools is not touched by any of them.
LEMMA NotTouched ==
  ASSUME MessageInv, [Next]_vars, NEW s \in Stage, NEW b \in ToSet(held[s]),
         \A p \in Path : s # in_local_queue(p)
  PROVE  /\ b \in Batch
         /\ queries'[b] = queries[b] \/ queries'[b] = <<>>
         /\ s # out_local_queue => queries'[b] = queries[b]
<1>1. held[s] \in Seq(Batch) /\ out_local_queue \in Stage
      /\ held[out_local_queue] \in Seq(Batch)
  BY StageFacts DEF MessageInv, BatchInv
<1>2. PICK i \in DOMAIN held[s] : held[s][i] = b
  BY DEF ToSet
<1>3. b \in Batch /\ i \in Nat
  BY <1>1, <1>2
<1>4. \A p \in Path : b # Local(p)
  BY <1>2, <1>3, LocalBatches DEF MessageInv, Local
<1>5. b \in ToSet(held[out_local_queue]) => s = out_local_queue
  BY <1>1, <1>2 DEF MessageInv, BatchInv, OneOwner, Owned, ToSet
<1>6. QED  BY <1>3, <1>4, <1>5, WhoTouches

-----------------------------------------------------------------------------
\* The stages after the database.
AnswerStage == {query_results, result_jobs, query_replies, out_local_queue}

\* A DatabaseJob has finished with every query there is an answer on the way for.
DoneInv ==
  /\ done \subseteq arrived
  /\ \A s \in AnswerStage : QueriesIn(s) \subseteq done

ServiceInv == RepliesInv /\ DoneInv

\* What is neither in a receiver's batch nor leaked has been received.
LEMMA OnTheWayArrived ==
  ASSUME RepliesInv, NEW s \in Stage
  PROVE  QueriesIn(s) \cap Query \subseteq arrived
<1> SUFFICES ASSUME NEW q \in QueriesIn(s), q \in Query PROVE q \in arrived
  OBVIOUS
<1>1. PICK b \in ToSet(held[s]) : q \in ToSet(queries[b])
  BY DEF QueriesIn
<1>2. held[s] \in Seq(Batch)
  BY DEF RepliesInv, MessageInv, BatchInv
<1>3. b \in Batch
  BY <1>1, <1>2 DEF ToSet
<1>4. PICK k \in DOMAIN queries[b] : queries[b][k] = q
  BY <1>1 DEF ToSet
<1>5. q # Partial
  BY ConstantsAssumption DEF Query
<1>6. QED  BY <1>3, <1>4, <1>5 DEF RepliesInv, Replies, AllArrived

\* Nothing that has arrived or is done ceases to be so.
LEMMA OnlyMore ==
  ASSUME MessageInv, [Next]_vars
  PROVE  arrived \subseteq arrived' /\ done \subseteq done' /\ dropped \subseteq dropped'
<1>1. ASSUME NEW p \in Path, ReceiverNext(p) \/ Restart(p)
      PROVE  arrived \subseteq arrived' /\ done' = done /\ dropped' = dropped
  BY <1>1 DEF ReceiverNext, Transfer, NoTransfer, Receive, ReceiveBad, NoMessage, PollError,
              Restart, clients
<1>2. CASE SenderNext \/ UNCHANGED vars
  BY <1>2 DEF SenderNext, SendReply, PeerNotReady, FetchReplies, NoReplies, vars, clients
<1>3. CASE WorkerNext
  BY <1>3 DEF WorkerNext, DistributeMessages, MessageJob, MessageFail, DistributeResults,
              ResultJob, ResultJobFail, clients
<1>4. CASE DatabaseNext
  BY <1>4 DEF DatabaseNext, DatabaseDistribute, DatabaseReads, DatabaseWrites, DatabasePart,
              DatabaseFail, clients
<1>5. QED  BY <1>1, <1>2, <1>3, <1>4 DEF Next

\* Queries become done only once they have arrived.
LEMMA DoneHaveArrived ==
  ASSUME ServiceInv, [Next]_vars
  PROVE  done' \subseteq arrived'
<1>1. ASSUME NEW p \in Path, NEW j \in DbJob
      PROVE  QueriesIn(db_queue(p, j)) \subseteq arrived
  <2>1. db_queue(p, j) \in Stage \ ({in_local_queue(r) : r \in Path} \cup {leaked})
    BY StageFacts
  <2>2. QED  BY <2>1, QueriesAreQueries, OnTheWayArrived DEF ServiceInv, RepliesInv
<1>2. \/ done' = done
      \/ \E p \in Path, j \in DbJob : done' = done \cup QueriesIn(db_queue(p, j))
  <2>1. CASE DatabaseNext
    BY <2>1 DEF DatabaseNext, DatabaseDistribute, DatabaseReads, DatabaseWrites,
                DatabasePart, DatabaseFail, Path
  <2>2. CASE SenderNext \/ UNCHANGED vars
    BY <2>2 DEF SenderNext, SendReply, PeerNotReady, FetchReplies, NoReplies, vars
  <2>3. CASE WorkerNext
    BY <2>3 DEF WorkerNext, DistributeMessages, MessageJob, MessageFail, DistributeResults,
                ResultJob, ResultJobFail
  <2>4. CASE \E p \in Path : ReceiverNext(p) \/ Restart(p)
    BY <2>4 DEF ReceiverNext, Transfer, NoTransfer, Receive, ReceiveBad, NoMessage,
                PollError, Restart
  <2>5. QED  BY <2>1, <2>2, <2>3, <2>4 DEF Next
<1>3. arrived \subseteq arrived' /\ done \subseteq arrived
  BY OnlyMore DEF ServiceInv, DoneInv, RepliesInv
<1>4. QED  BY <1>1, <1>2, <1>3

LEMMA DoneInductive == ASSUME ServiceInv, [Next]_vars PROVE ServiceInv'
<1>1. RepliesInv'
  BY RepliesInductive DEF ServiceInv
<1>2. ASSUME NEW s \in AnswerStage PROVE QueriesIn(s)' \subseteq done'
  <2>0. MessageInv /\ BatchInv
    BY DEF ServiceInv, RepliesInv, MessageInv
  <2>1. /\ s \in Stage /\ s # leaked /\ \A p \in Path : s # in_local_queue(p)
        /\ \A p \in Path : s # msg_queue(p) /\ s # message_jobs(p) /\ s # query_queue(p)
        /\ \A p \in Path, j \in DbJob : s # db_queue(p, j)
        /\ s # querybatch_pool
    BY StageFacts DEF AnswerStage
  <2>2. SUFFICES ASSUME NEW b \in ToSet(held'[s]) PROVE ToSet(queries'[b]) \subseteq done'
    BY DEF QueriesIn
  <2>3. ToSet(<<>>) = {}
    BY DEF ToSet
  <2>4. ASSUME NEW t \in Stage, b \in ToSet(held[t]), QueriesIn(t) \subseteq done',
               \A p \in Path : t # in_local_queue(p)
        PROVE  ToSet(queries'[b]) \subseteq done'
    <3>1. queries'[b] = queries[b] \/ queries'[b] = <<>>
      BY <2>0, <2>4, NotTouched
    <3>2. ToSet(queries[b]) \subseteq QueriesIn(t)
      BY <2>4 DEF QueriesIn
    <3>3. QED  BY <2>3, <2>4, <3>1, <3>2
  <2>5. \A t \in AnswerStage : QueriesIn(t) \subseteq done'
    BY <2>0, OnlyMore DEF ServiceInv, DoneInv
  <2>6. CASE b \in ToSet(held[s])
    BY <2>1, <2>4, <2>5, <2>6
  <2>7. CASE \E t \in Stage : Feeds(t, s) /\ b \in ToSet(held[t])
    <3>1. PICK t \in Stage : Feeds(t, s) /\ b \in ToSet(held[t])
      BY <2>7
    <3>2. CASE t \in AnswerStage
      <4>1. \A p \in Path : t # in_local_queue(p)
        BY <3>2, StageFacts DEF AnswerStage
      <4>2. QED  BY <2>4, <2>5, <3>1, <3>2, <4>1
    <3>3. CASE \E p \in Path, j \in DbJob : t = db_queue(p, j) /\ QueriesIn(t) \subseteq done'
      <4>1. \A p \in Path : t # in_local_queue(p)
        BY <3>3, StageFacts
      <4>2. QED  BY <2>4, <3>1, <3>3, <4>1
    <3>4. QED
      <4>1. \/ t \in AnswerStage
            \/ \E p \in Path, j \in DbJob : t = db_queue(p, j) /\ QueriesIn(t) \subseteq done'
        BY <2>1, <3>1 DEF Feeds, AnswerStage
      <4>2. QED  BY <3>2, <3>3, <4>1
  <2>8. QED
    <3>1. Flows(s)
      BY <2>0, <2>1, BatchesFlow
    <3>2. QED  BY <2>1, <2>6, <2>7, <3>1 DEF Flows
<1>3. QED  BY <1>1, <1>2, DoneHaveArrived DEF ServiceInv, DoneInv, AnswerStage

\* What is lost stays so.
LEMMA LostStays ==
  ASSUME MessageInv, [Next]_vars
  PROVE  Lost \subseteq Lost'
<1> SUFFICES ASSUME NEW q \in QueriesIn(leaked) PROVE q \in QueriesIn(leaked)'
  BY OnlyMore DEF Lost
<1>1. PICK b \in ToSet(held[leaked]) : q \in ToSet(queries[b])
  BY DEF QueriesIn
<1>2. leaked \in Stage /\ leaked # out_local_queue /\ \A p \in Path : leaked # in_local_queue(p)
  BY StageFacts
<1>3. queries'[b] = queries[b]
  BY <1>1, <1>2, NotTouched
<1>4. b \in ToSet(held'[leaked])
  <2>1. Leaked(b)
    BY <1>1 DEF Leaked, ToSet
  <2>2. Leaked(b)'
    BY <2>1, LeakedStays DEF MessageInv
  <2>3. QED  BY <2>2 DEF Leaked, ToSet
<1>5. QED  BY <1>1, <1>3, <1>4 DEF QueriesIn

\* What is lost was received.
LEMMA LostArrived == ASSUME RepliesInv PROVE Lost \cap Query \subseteq arrived
<1>1. QueriesIn(leaked) \cap Query \subseteq arrived
  BY StageFacts, OnTheWayArrived
<1>2. QED  BY <1>1 DEF RepliesInv, Replies, AllArrived, Past, Lost

\* What a client's query looks like, and when it looks the same.
LEMMA StatusFacts ==
  /\ DOMAIN statusBar = Query
  /\ \A q \in Query :
       /\ sent[q] > 0 => statusBar[q] = "answered"
       /\ ~(sent[q] > 0) /\ q \in Lost => statusBar[q] = "lost"
       /\ ~(sent[q] > 0) /\ q \notin Lost /\ q \in done => statusBar[q] = "executed"
       /\ ~(sent[q] > 0) /\ q \notin Lost /\ q \notin done /\ q \in arrived
            => statusBar[q] = "accepted"
       /\ ~(sent[q] > 0) /\ q \notin Lost /\ q \notin done /\ q \notin arrived
            => statusBar[q] = "new"
BY DEF statusBar

\* The same after the step.
LEMMA StatusFactsNext ==
  /\ statusBar' \in [Query -> Service!Status] /\ DOMAIN statusBar' = Query
  /\ \A q \in Query :
       /\ sent'[q] > 0 => statusBar'[q] = "answered"
       /\ ~(sent'[q] > 0) /\ q \in Lost' => statusBar'[q] = "lost"
       /\ ~(sent'[q] > 0) /\ q \notin Lost' /\ q \in done' => statusBar'[q] = "executed"
       /\ ~(sent'[q] > 0) /\ q \notin Lost' /\ q \notin done' /\ q \in arrived'
            => statusBar'[q] = "accepted"
       /\ ~(sent'[q] > 0) /\ q \notin Lost' /\ q \notin done' /\ q \notin arrived'
            => statusBar'[q] = "new"
BY DEF statusBar, Service!Status

\* A step after which the queries in Q have come to one stage, from those allowed, and
\* the others are where they were.
LEMMA Becomes ==
  ASSUME NEW Q \in SUBSET Query, NEW from, NEW to,
         \A q \in Q : statusBar[q] \in from /\ statusBar'[q] = to,
         \A q \in Query \ Q : statusBar'[q] = statusBar[q]
  PROVE  Service!Become(Q, from, to)
<1>1. statusBar' = [q \in Query |-> IF q \in Q THEN to ELSE statusBar[q]]
  BY StatusFactsNext
<1>2. QED  BY <1>1 DEF Service!Become

\* Most steps tell no client anything; what they do to a query, if anything, is lose it.
LEMMA LosesOrStutters ==
  ASSUME ServiceInv, [Next]_vars, UNCHANGED <<sent, done, arrived>>
  PROVE  Service!Next
<1> DEFINE Q == {q \in Query : statusBar'[q] # statusBar[q]}
<1>1. Lost \subseteq Lost'
  BY LostStays DEF ServiceInv, RepliesInv
<1>2. Lost' \cap Query \subseteq arrived
  <2>1. RepliesInv'
    BY DoneInductive DEF ServiceInv
  <2>2. (Lost \cap Query \subseteq arrived)'
    BY <2>1, LostArrived, PTL
  <2>3. QED  BY <2>2 DEF Query
<1>3. ASSUME NEW q \in Q
      PROVE  statusBar[q] \in {"accepted", "executed"} /\ statusBar'[q] = "lost"
  BY <1>1, <1>2, StatusFacts, StatusFactsNext
<1>4. Service!Lose(Q)
  BY <1>3, Becomes DEF Service!Lose
<1>5. QED  BY <1>4 DEF Service!Next

\* A receiver takes a query in.
LEMMA ReceiveAccepts ==
  ASSUME ServiceInv, [Next]_vars, NEW p \in Path, NEW q \in Query, Receive(p, q)
  PROVE  Service!Accept(q)
<1>1. /\ UNCHANGED <<held, done, sent, dropped>>
      /\ arrived' = arrived \cup {q} /\ q \notin arrived
  BY DEF Receive, clients
<1>2. Lost' \cap Query = Lost \cap Query
  <2>1. MessageInv
    BY DEF ServiceInv, RepliesInv
  <2>2. leaked \in Stage /\ leaked # out_local_queue /\ \A r \in Path : leaked # in_local_queue(r)
    BY StageFacts
  <2>3. \A b \in ToSet(held[leaked]) : queries'[b] = queries[b]
    BY <2>1, <2>2, NotTouched
  <2>4. QueriesIn(leaked)' = QueriesIn(leaked)
    BY <1>1, <2>3 DEF QueriesIn
  <2>5. QED  BY <1>1, <2>4 DEF Lost
<1>3. Lost \cap Query \subseteq arrived /\ done \subseteq arrived /\ ~(sent[q] > 0)
  <2>1. ~Past(q) /\ sent[q] = 0
    BY <1>1 DEF ServiceInv, RepliesInv, Replies, AllArrived, Past
  <2>2. QED  BY <2>1, LostArrived DEF ServiceInv, DoneInv
<1>4. statusBar[q] = "new" /\ statusBar'[q] = "accepted"
  BY <1>1, <1>2, <1>3, StatusFacts, StatusFactsNext
<1>5. \A r \in Query \ {q} : statusBar'[r] = statusBar[r]
  BY <1>1, <1>2, StatusFacts, StatusFactsNext
<1>6. QED  BY <1>4, <1>5, Becomes DEF Service!Accept

\* A DatabaseJob is done with the queries of a part of its batches.
LEMMA PartExecutes ==
  ASSUME ServiceInv, [Next]_vars, NEW p \in Path, NEW j \in DbJob, NEW next,
         DatabasePart(p, j, next)
  PROVE  Service!Next
<1> DEFINE Q == {q \in Query : statusBar'[q] # statusBar[q]}
<1>1. UNCHANGED <<queries, arrived, sent, dropped>> /\ done \subseteq done'
  BY DEF DatabasePart, clients
<1>2. Lost' = Lost
  <2>1. leaked \notin {db_queue(p, j), query_results} /\ leaked \in Stage
        /\ held \in [Stage -> Seq(Batch)]
    BY StageFacts DEF ServiceInv, RepliesInv, MessageInv, BatchInv
  <2>2. held'[leaked] = held[leaked]
    BY <2>1 DEF DatabasePart, HandOn
  <2>3. QED  BY <1>1, <2>2 DEF Lost, QueriesIn
<1>3. done' \subseteq arrived
  BY <1>1, DoneHaveArrived
<1>4. ASSUME NEW q \in Q
      PROVE  statusBar[q] \in {"accepted"} /\ statusBar'[q] = "executed"
  BY <1>1, <1>2, <1>3, StatusFacts, StatusFactsNext
<1>5. Service!Execute(Q)
  BY <1>4, Becomes DEF Service!Execute
<1>6. QED  BY <1>5 DEF Service!Next

\* The sender sends a reply, or fails to: to a query that is executed, and is neither
\* answered nor lost yet.
LEMMA SendAnswers ==
  ASSUME ServiceInv, [Next]_vars, SendReply
  PROVE  Service!Next
<1> DEFINE b == held[out_local_queue][1]
           n == out_i + 1
           q == queries[b][n]
<1>0. MessageInv /\ Replies
  BY DEF ServiceInv, RepliesInv
<1>1. /\ held[out_local_queue] \in Seq(Batch) /\ held[out_local_queue] # <<>>
      /\ out_local_queue \in Stage /\ out_local_queue # leaked /\ leaked \in Stage
      /\ held[leaked] \in Seq(Batch)
      /\ out_i \in Nat /\ sent \in [Query -> Nat]
      /\ queries \in [Batch -> Seq(Entry)]
      /\ n <= Len(queries[Head(held[out_local_queue])])
  BY <1>0, StageFacts DEF MessageInv, TypeOK, SendReply, Answering
<1>2. /\ Head(held[out_local_queue]) = b /\ b \in Batch /\ b \in ToSet(held[out_local_queue])
      /\ 1 \in DOMAIN held[out_local_queue]
  BY <1>1, EmptySeq DEF ToSet
<1>3. n \in DOMAIN queries[b] /\ n \in Nat /\ q \in ToSet(queries[b])
  BY <1>1, <1>2 DEF ToSet
<1>4. q \in Query /\ q # Partial
  BY <1>0, <1>2, ReplyIsToAQuery, ConstantsAssumption DEF SendReply, Query
<1>5. ~Leaked(b)
  BY <1>0, <1>1, <1>2, LeakedIsNowhere DEF MessageInv
<1>6. sent[q] = 0 /\ q \notin dropped
  <2>1. ~Used(b, n)
    BY <1>1, <1>5 DEF Used
  <2>2. ~Past(q)
    BY <1>0, <1>2, <1>3, <1>4, <2>1 DEF Replies, PastIsUsed
  <2>3. QED  BY <2>2 DEF Past
<1>7. /\ UNCHANGED <<held, queries, arrived, done>>
      /\ \/ sent' = [sent EXCEPT ![q] = sent[q] + 1] /\ dropped' = dropped
         \/ dropped' = dropped \cup {q} /\ sent' = sent
  BY <1>2 DEF SendReply, NextReply
<1>8. q \in done
  <2>1. QueriesIn(out_local_queue) \subseteq done
    BY DEF ServiceInv, DoneInv, AnswerStage
  <2>2. QED  BY <1>2, <1>3, <2>1 DEF QueriesIn
<1>9. q \notin QueriesIn(leaked)
  <2> SUFFICES ASSUME NEW c \in ToSet(held[leaked]), q \in ToSet(queries[c]) PROVE FALSE
    BY DEF QueriesIn
  <2>1. c \in Batch /\ Leaked(c)
    BY <1>1 DEF ToSet, Leaked
  <2>2. PICK k \in DOMAIN queries[c] : queries[c][k] = q
    BY DEF ToSet
  <2>3. c = b
    BY <1>0, <1>2, <1>3, <1>4, <2>1, <2>2 DEF Replies, InOnePlace
  <2>4. QED  BY <1>5, <2>1, <2>3
<1> HIDE DEF q, n, b
<1>10. QueriesIn(leaked)' = QueriesIn(leaked)
  BY <1>7 DEF QueriesIn
<1>11. statusBar[q] = "executed"
  BY <1>4, <1>6, <1>8, <1>9, StatusFacts DEF Lost
<1>12. \A r \in Query \ {q} : statusBar'[r] = statusBar[r]
  <2>1. \A r \in Query \ {q} : /\ sent'[r] = sent[r] /\ (r \in Lost') = (r \in Lost)
                               /\ (r \in done') = (r \in done)
                               /\ (r \in arrived') = (r \in arrived)
    BY <1>1, <1>4, <1>7, <1>10 DEF Lost
  <2>2. QED  BY <2>1, StatusFacts, StatusFactsNext
<1>13. CASE sent' = [sent EXCEPT ![q] = sent[q] + 1]
  <2>1. sent'[q] > 0
    BY <1>1, <1>4, <1>6, <1>13
  <2>2. statusBar'[q] = "answered"
    BY <1>4, <2>1, StatusFactsNext
  <2>3. Service!Answer(q)
    BY <1>4, <1>11, <1>12, <2>2, Becomes DEF Service!Answer
  <2>4. QED  BY <1>4, <2>3 DEF Service!Next
<1>14. CASE dropped' = dropped \cup {q} /\ sent' = sent
  <2>1. q \in Lost' /\ ~(sent'[q] > 0)
    BY <1>6, <1>14 DEF Lost
  <2>2. statusBar'[q] = "lost"
    BY <1>4, <2>1, StatusFactsNext
  <2>3. Service!Lose({q})
    BY <1>4, <1>11, <1>12, <2>2, Becomes DEF Service!Lose
  <2>4. QED  BY <1>4, <2>3 DEF Service!Next
<1>15. QED  BY <1>7, <1>13, <1>14

\* Every step of the pipeline is one the clients are promised, or shows them nothing.
LEMMA StepImplementsService ==
  ASSUME ServiceInv, [Next]_vars
  PROVE  [Service!Next]_statusBar
<1>1. ASSUME NEW p \in Path, ReceiverNext(p) \/ Restart(p) PROVE Service!Next
  <2>1. CASE \E q \in Query : Receive(p, q)
    BY <2>1, ReceiveAccepts DEF Service!Next
  <2>2. CASE ~\E q \in Query : Receive(p, q)
    <3>1. UNCHANGED <<sent, done, arrived>>
      BY <1>1, <2>2 DEF ReceiverNext, Transfer, NoTransfer, ReceiveBad, NoMessage,
                        PollError, Restart, clients
    <3>2. QED  BY <3>1, LosesOrStutters
  <2>3. QED  BY <2>1, <2>2
<1>2. CASE FetchReplies \/ PeerNotReady \/ NoReplies
  BY <1>2, LosesOrStutters DEF FetchReplies, PeerNotReady, NoReplies, clients
<1>3. CASE WorkerNext
  BY <1>3, LosesOrStutters
     DEF WorkerNext, DistributeMessages, MessageJob, MessageFail, DistributeResults,
         ResultJob, ResultJobFail, clients
<1>4. ASSUME NEW j \in DbJob, DatabaseDistribute(j) \/ DatabaseFail(j) PROVE Service!Next
  BY <1>4, LosesOrStutters DEF DatabaseDistribute, DatabaseFail, clients
<1>5. ASSUME NEW j \in DbJob, DatabaseReads(j) \/ DatabaseWrites(j) PROVE Service!Next
  BY <1>5, PartExecutes DEF DatabaseReads, DatabaseWrites, Path
<1>6. CASE UNCHANGED vars
  BY <1>6, LosesOrStutters DEF vars, clients
<1>7. QED
  BY <1>1, <1>2, <1>3, <1>4, <1>5, <1>6, SendAnswers DEF Next, SenderNext, DatabaseNext

\* The pipeline keeps the promise made to its clients: a query that is accepted is
\* executed before it is answered, is answered once, and is never answered once it is
\* lost.
THEOREM PipelineImplementsService == Spec => ImplementsService
<1>1. Init => ServiceInv
  <2> SUFFICES ASSUME Init PROVE ServiceInv
    OBVIOUS
  <2>1. RepliesInv
    BY RepliesInitially
  <2>2. done = {} /\ arrived = {}
    BY DEF Init
  <2>3. ASSUME NEW s \in AnswerStage PROVE held[s] = <<>>
    <3>1. s \in Stage /\ \A p \in Path : s # in_local_queue(p)
      BY StageFacts DEF AnswerStage
    <3>2. QED  BY <3>1 DEF Init, Path
  <2>4. \A s \in AnswerStage : QueriesIn(s) = {}
    BY <2>3 DEF QueriesIn, ToSet
  <2>5. QED  BY <2>1, <2>2, <2>4 DEF ServiceInv, DoneInv
<1>2. Init => Service!Init
  <2> SUFFICES ASSUME Init PROVE Service!Init
    OBVIOUS
  <2>1. leaked \in Stage /\ \A p \in Path : leaked # in_local_queue(p)
    BY StageFacts
  <2>2. held[leaked] = <<>>
    BY <2>1 DEF Init, Path
  <2>3. /\ QueriesIn(leaked) = {} /\ done = {} /\ arrived = {} /\ dropped = {}
        /\ \A q \in Query : sent[q] = 0
    BY <2>2 DEF QueriesIn, ToSet, Init
  <2>4. QED  BY <2>3 DEF statusBar, Lost, Service!Init
<1>3. ServiceInv /\ [Next]_vars => ServiceInv'
  BY DoneInductive
<1>4. ServiceInv /\ [Next]_vars => [Service!Next]_statusBar
  BY StepImplementsService
<1>5. QED  BY <1>1, <1>2, <1>3, <1>4, PTL DEF Spec, ImplementsService, Service!Spec

-----------------------------------------------------------------------------
\* The stages between a receiver and ResultJob.
ToolStage ==
  {query_results, result_jobs}
    \cup {msg_queue(p) : p \in Path}    \cup {message_jobs(p) : p \in Path}
    \cup {query_queue(p) : p \in Path}  \cup {db_queue(p, j) : p \in Path, j \in DbJob}

\* A receiver's batch is of the receiver's kind, and only a bad message can have left a
\* batch empty that was handed on.
FrontInv ==
  /\ \A p \in Path : ToSet(queries[Local(p)]) \subseteq QueryOf(p) \cup {Partial}
  /\ \A b \in Batch : Uniform(b)
  /\ \A b \in Batch \ Created : queries[b] = <<>>
  /\ \A p \in Path : ~make_new[p] => faults > 0
  /\ \A s \in ToolStage : \A b \in ToSet(held[s]) : queries[b] = <<>> => faults > 0

KindInv == PoolInv /\ FrontInv

\* A bad message is a fault, and faults are not forgotten.
LEMMA BadIsAFault ==
  ASSUME KindInv, [Next]_vars
  PROVE  /\ faults > 0 => faults' > 0
         /\ \A p \in Path : ~make_new'[p] => faults' > 0
<1>0. faults \in Nat /\ make_new \in [Path -> BOOLEAN]
      /\ \A p \in Path : ~make_new[p] => faults > 0
  BY ConstantsAssumption DEF KindInv, PoolInv, MessageInv, TypeOK, FrontInv
<1>1. CASE faults' = faults /\ make_new' = make_new
  BY <1>0, <1>1
<1>2. CASE faults' = faults + 1
  BY <1>0, <1>2
<1>3. CASE faults' = faults /\ \E p \in Path : make_new' = [make_new EXCEPT ![p] = TRUE]
  BY <1>0, <1>3
<1>4. ASSUME NEW p \in Path, ReceiverNext(p) \/ Restart(p)
      PROVE  \/ faults' = faults /\ make_new' = make_new
             \/ faults' = faults + 1
             \/ faults' = faults /\ make_new' = [make_new EXCEPT ![p] = TRUE]
  BY <1>4 DEF ReceiverNext, Transfer, NoTransfer, Receive, ReceiveBad, NoMessage, PollError,
              Restart, Fault
<1>5. CASE SenderNext
  <2>1. (faults' = faults \/ faults' = faults + 1) /\ make_new' = make_new
    BY <1>5 DEF SenderNext, SendReply, PeerNotReady, FetchReplies, NoReplies, Fault
  <2>2. QED  BY <1>1, <1>2, <2>1
<1>6. CASE WorkerNext
  <2>1. (faults' = faults \/ faults' = faults + 1) /\ make_new' = make_new
    BY <1>6 DEF WorkerNext, DistributeMessages, MessageJob, MessageFail, DistributeResults,
                ResultJob, ResultJobFail, Fault, receiver
  <2>2. QED  BY <1>1, <1>2, <2>1
<1>7. CASE DatabaseNext
  <2>1. (faults' = faults \/ faults' = faults + 1) /\ make_new' = make_new
    BY <1>7 DEF DatabaseNext, DatabaseDistribute, DatabaseReads, DatabaseWrites,
                DatabasePart, DatabaseFail, Fault, receiver
  <2>2. QED  BY <1>1, <1>2, <2>1
<1>8. CASE UNCHANGED vars
  BY <1>1, <1>8 DEF vars
<1>9. CASE \E p \in Path : ReceiverNext(p) \/ Restart(p)
  BY <1>1, <1>2, <1>3, <1>4, <1>9
<1>10. QED  BY <1>5, <1>6, <1>7, <1>8, <1>9 DEF Next

LEMMA LocalIsHeld ==
  ASSUME BatchInv
  PROVE  \A p \in Path : Local(p) \in Batch /\ Local(p) \in ToSet(held[in_local_queue(p)])
BY LocalBatches DEF Local, ToSet

\* A receiver's batch: the one it had, or an empty one.
LEMMA LocalOfItsKind ==
  ASSUME KindInv, [Next]_vars, NEW p \in Path
  PROVE  ToSet(queries'[Local(p)']) \subseteq QueryOf(p) \cup {Partial}
<1> DEFINE local == in_local_queue(p)
           b == held'[local][1]
<1>0. MessageInv /\ BatchInv /\ MessageInv' /\ BatchInv' /\ PoolIsClean
  BY MessagesInductive DEF KindInv, PoolInv, MessageInv
<1>1. b \in Batch /\ b \in ToSet(held'[local])
  <2>1. /\ local \in Stage /\ held'[local] \in Seq(Batch) /\ Len(held'[local]) = 1
    BY <1>0, StageFacts DEF BatchInv, StageShape
  <2>2. QED  BY <2>1 DEF ToSet
<1>2. /\ local \in Stage /\ held[local] \in Seq(Batch) /\ Len(held[local]) = 1
      /\ querybatch_pool \in Stage /\ local # leaked /\ querybatch_pool # leaked
      /\ \A r \in Path : querybatch_pool # in_local_queue(r)
      /\ \A r \in Path : in_local_queue(r) = local => r = p
  <2>1. \A r \in Path : in_local_queue(r) = local => r = p
    BY DEF in_local_queue
  <2>2. QED  BY <1>0, <2>1, StageFacts DEF BatchInv, StageShape
<1>3. CASE b \in ToSet(held[local])
  <2>1. b = Local(p)
    BY <1>2, <1>3 DEF ToSet, Local
  <2>2. ToSet(queries[b]) \subseteq QueryOf(p) \cup {Partial}
    BY <2>1 DEF KindInv, FrontInv
  <2>3. \A r \in Path : b = Local(r) => r = p
    BY <1>0, <2>1, LocalBatches DEF Local
  <2>4. ToSet(<<>>) = {}
    BY DEF ToSet
  <2>5. QED  BY <1>0, <1>1, <2>2, <2>3, <2>4, WhoTouches DEF Local
<1>4. CASE b \in ToSet(held[querybatch_pool])
  <2>1. queries'[b] = queries[b] \/ queries'[b] = <<>>
    BY <1>0, <1>2, <1>4, NotTouched
  <2>2. queries'[b] = <<>>
    BY <1>0, <1>4, <2>1 DEF PoolIsClean
  <2>3. QED  BY <2>2 DEF ToSet, Local
<1>5. CASE b \notin Created
  <2>1. queries[b] = <<>>
    BY <1>1, <1>5 DEF KindInv, FrontInv
  <2>2. \A r \in Path : Local(r) \in Created
    BY <1>0, LocalIsHeld, StageFacts DEF Created
  <2>3. queries'[b] = queries[b] \/ queries'[b] = <<>>
    BY <1>0, <1>1, <1>5, <2>2, WhoTouches
  <2>4. QED  BY <2>1, <2>3 DEF ToSet, Local
<1>6. QED
  <2>1. Flows(local)
    BY <1>0, <1>2, BatchesFlow
  <2>2. ASSUME NEW t \in Stage, Feeds(t, local) PROVE t = querybatch_pool
    BY <2>2, StageFacts DEF Feeds
  <2>3. QED  BY <1>1, <1>2, <1>3, <1>4, <1>5, <2>1, <2>2 DEF Flows

\* Every step keeps batches of one kind.
LEMMA KindsInductive == ASSUME KindInv, [Next]_vars PROVE KindInv'
<1>0. MessageInv /\ BatchInv /\ BatchInv' /\ FrontInv
  BY PoolInductive DEF KindInv, PoolInv, MessageInv
<1>e. ToSet(<<>>) = {}
  BY DEF ToSet
<1>1. ASSUME NEW b \in Batch PROVE Uniform(b)'
  <2>1. CASE queries'[b] = queries[b]
    BY <1>0, <2>1 DEF FrontInv, Uniform
  <2>2. CASE queries'[b] = <<>>
    BY <1>e, <2>2 DEF Uniform
  <2>3. CASE \E p \in Path :
               /\ b = Local(p)
               /\ ToSet(queries'[b]) \subseteq ToSet(queries[b]) \cup QueryOf(p) \cup {Partial}
    BY <1>0, <2>3 DEF FrontInv, Uniform, QueryOf
  <2>4. QED  BY <1>0, <2>1, <2>2, <2>3, WhoTouches
<1>2. ASSUME NEW b \in Batch, b \notin Created' PROVE queries'[b] = <<>>
  <2>1. b \notin Created
    <3>1. Within(held, held')
      BY <1>0, BatchesInductive
    <3>2. Created \subseteq Created'
      BY <3>1 DEF Created, Within, ToSet
    <3>3. QED  BY <1>2, <3>2
  <2>2. \A r \in Path : Local(r) \in Created
    BY <1>0, LocalIsHeld, StageFacts DEF Created
  <2>3. QED  BY <1>0, <1>2, <2>1, <2>2, WhoTouches DEF FrontInv
<1>3. ASSUME NEW s \in ToolStage, NEW b \in ToSet(held'[s]), queries'[b] = <<>>
      PROVE  faults' > 0
  <2>1. s \in Stage /\ s # leaked /\ s # querybatch_pool /\ s # out_local_queue
        /\ s # query_replies /\ \A p \in Path : s # in_local_queue(p)
    BY StageFacts DEF ToolStage
  <2>2. ASSUME NEW t \in ToolStage, b \in ToSet(held[t]) PROVE faults' > 0
    <3>1. t \in Stage /\ t # out_local_queue /\ \A p \in Path : t # in_local_queue(p)
      BY StageFacts DEF ToolStage
    <3>2. queries'[b] = queries[b]
      BY <1>0, <2>2, <3>1, NotTouched
    <3>3. QED  BY <1>0, <1>3, <2>2, <3>2, BadIsAFault DEF FrontInv
  <2>3. ASSUME NEW p \in Path, Transfer(p), b \in ToSet(held[in_local_queue(p)])
        PROVE  faults' > 0
    <3>1. /\ in_local_queue(p) \in Stage /\ held[in_local_queue(p)] \in Seq(Batch)
          /\ Len(held[in_local_queue(p)]) = 1
      BY <1>0, StageFacts DEF BatchInv, StageShape
    <3>2. b = Local(p) /\ b \in Batch /\ Head(held[in_local_queue(p)]) = b
      BY <2>3, <3>1 DEF ToSet, Local
    <3>3. queries[b] # <<>> /\ queries' = [queries EXCEPT ![b] = CompleteEntries(p, b)]
      BY <2>3, <3>2 DEF Transfer, HasEntries
    <3>4. queries'[b] = CompleteEntries(p, b)
      BY <1>0, <3>2, <3>3 DEF MessageInv, TypeOK
    <3>5. ~make_new[p]
      BY <1>3, <3>3, <3>4 DEF CompleteEntries
    <3>6. faults > 0
      BY <1>0, <3>5 DEF FrontInv
    <3>7. QED  BY <3>6, BadIsAFault
  <2>4. ASSUME NEW t \in Stage, Feeds(t, s)
        PROVE  t \in ToolStage \/ \E p \in Path : t = in_local_queue(p) /\ Transfer(p)
    BY <2>1, <2>4 DEF Feeds, ToolStage
  <2>5. Flows(s)
    BY <1>0, <2>1, BatchesFlow
  <2>6. QED  BY <1>3, <2>1, <2>2, <2>3, <2>4, <2>5 DEF Flows
<1>4. \A p \in Path : ToSet(queries'[Local(p)']) \subseteq QueryOf(p) \cup {Partial}
  BY LocalOfItsKind
<1>5. FrontInv'
  BY <1>1, <1>2, <1>3, <1>4, BadIsAFault DEF FrontInv, ToolStage, QueryOf
<1>6. QED  BY <1>5, PoolInductive DEF KindInv

\* ResultJob can tell by the first query of a batch what the batch is of: it is of one
\* kind, and not empty, unless a bad message was all its receiver was handed.
THEOREM FrontsTellAll == Spec => []FrontTellsAll
<1>1. Init => KindInv
  <2> SUFFICES ASSUME Init PROVE KindInv
    OBVIOUS
  <2>1. PoolInv
    BY PoolInitially
  <2>2. /\ \A b \in Batch : queries[b] = <<>>
        /\ \A p \in Path : make_new[p] /\ Local(p) \in Batch
    BY <2>1, LocalBatches DEF Init, PoolInv, MessageInv, Local
  <2>3. ASSUME NEW s \in ToolStage PROVE held[s] = <<>>
    <3>1. s \in Stage /\ \A p \in Path : s # in_local_queue(p)
      BY StageFacts DEF ToolStage
    <3>2. QED  BY <3>1 DEF Init, Path
  <2>4. ToSet(<<>>) = {}
    BY DEF ToSet
  <2>5. QED  BY <2>1, <2>2, <2>3, <2>4 DEF KindInv, FrontInv, Uniform
<1>2. KindInv => FrontTellsAll
  <2>1. result_jobs \in ToolStage
    BY DEF ToolStage
  <2>2. QED  BY <2>1 DEF KindInv, FrontInv, FrontTellsAll
<1>3. KindInv /\ [Next]_vars => KindInv'
  BY KindsInductive
<1>4. QED  BY <1>1, <1>2, <1>3, PTL DEF Spec
=============================================================================
