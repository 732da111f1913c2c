------------------------- MODULE QueryPipelineProofs -------------------------
(***************************************************************************)
(* Who owns a QueryBatch.  The steps of the pipeline only ever move        *)
(* batches: a whole stage behind another, one of a stage behind another,   *)
(* or a new one into an empty stage.  Each kind of move keeps OneOwner: of *)
(* the function held alone that is said in the first half, of the actions  *)
(* in the second.  StageShape belongs to the invariant because the code    *)
(* overwrites a pointer, or a job's two queues, where it takes it that     *)
(* there is nothing to lose.                                               *)
(***************************************************************************)
EXTENDS QueryPipelineProps, SequenceTheorems, TLAPS

\* What is left of a sequence one of whose elements is taken out.
LEMMA RemoveAtProperties ==
  ASSUME NEW S, NEW s \in Seq(S), NEW i \in 1..Len(s)
  PROVE  /\ RemoveAt(s, i) \in Seq(S)
         /\ Len(RemoveAt(s, i)) = Len(s) - 1
         /\ \A k \in 1..(Len(s) - 1) :
              RemoveAt(s, i)[k] = IF k < i THEN s[k] ELSE s[k + 1]
<1> DEFINE before == SubSeq(s, 1, i - 1)
           after  == SubSeq(s, i + 1, Len(s))
<1>1. /\ before \in Seq(S) /\ Len(before) = i - 1
      /\ \A k \in 1..(i - 1) : before[k] = s[k]
  <2>1. i - 1 \in Int /\ \A k \in 1..(i - 1) : s[k] \in S
    BY ElementOfSeq
  <2>2. QED  BY <2>1, SubSeqProperties
<1>2. /\ after \in Seq(S) /\ Len(after) = Len(s) - i
      /\ \A k \in 1..(Len(s) - i) : after[k] = s[i + k]
  <2>1. i + 1 \in Int /\ \A k \in (i + 1)..Len(s) : s[k] \in S
    BY ElementOfSeq
  <2>2. QED  BY <2>1, SubSeqProperties
<1>3. RemoveAt(s, i) = before \o after
  BY DEF RemoveAt
<1> HIDE DEF before, after
<1>4. /\ before \o after \in Seq(S)
      /\ Len(before \o after) = Len(before) + Len(after)
      /\ \A k \in 1..(Len(before) + Len(after)) : (before \o after)[k] =
           IF k <= Len(before) THEN before[k] ELSE after[k - Len(before)]
  BY <1>1, <1>2, ConcatProperties
<1>5. ASSUME NEW k \in 1..(Len(s) - 1)
      PROVE  (before \o after)[k] = IF k < i THEN s[k] ELSE s[k + 1]
  <2>1. CASE k < i
    BY <2>1, <1>1, <1>2, <1>4
  <2>2. CASE ~(k < i)
    <3>1. k - (i - 1) \in 1..(Len(s) - i) /\ i + (k - (i - 1)) = k + 1
      BY <2>2
    <3>2. (before \o after)[k] = after[k - (i - 1)]
      BY <2>2, <1>1, <1>2, <1>4
    <3>3. QED  BY <2>2, <3>1, <3>2, <1>2
  <2>3. QED  BY <2>1, <2>2
<1>6. QED  BY <1>1, <1>2, <1>3, <1>4, <1>5

\* What is left of a sequence without its last element.
LEMMA FrontProperties ==
  ASSUME NEW S, NEW s \in Seq(S), s # <<>>
  PROVE  /\ Front(s) \in Seq(S)
         /\ Len(Front(s)) = Len(s) - 1
         /\ \A k \in 1..(Len(s) - 1) : Front(s)[k] = s[k]
<1>1. Len(s) \in Nat \ {0} /\ \A k \in 1..(Len(s) - 1) : s[k] \in S
  BY ElementOfSeq, EmptySeq
<1> DEFINE n == Len(s) - 1
           t == SubSeq(s, 1, n)
<1>2. n \in Nat /\ 1 \in Int /\ n \in Int /\ \A k \in 1..n : s[k] \in S
  BY <1>1
<1> HIDE DEF n
<1>3. /\ t \in Seq(S)
      /\ Len(t) = IF 1 <= n THEN n - 1 + 1 ELSE 0
      /\ \A k \in 1..(n - 1 + 1) : t[k] = s[1 + k - 1]
  BY <1>2, SubSeqProperties
<1> HIDE DEF t
<1>4. Len(t) = n /\ \A k \in 1..n : t[k] = s[k]
  BY <1>2, <1>3
<1>5. QED  BY <1>3, <1>4 DEF Front, t, n

\* Stages differ by their name, and stages of a name by their parameters.
LEMMA StageFacts ==
  /\ \A s \in {querybatch_pool, query_results, result_jobs, query_replies,
               out_local_queue, leaked} : s \in Stage
  /\ querybatch_pool[1] = "querybatch_pool"
  /\ query_results[1] = "query_results"
  /\ result_jobs[1] = "result_jobs"
  /\ query_replies[1] = "query_replies"
  /\ out_local_queue[1] = "out_local_queue"
  /\ leaked[1] = "leaked"
  /\ \A p \in Path :
       /\ in_local_queue(p) \in Stage /\ in_local_queue(p)[1] = "in_local_queue"
       /\ msg_queue(p) \in Stage      /\ msg_queue(p)[1] = "msg_queue"
       /\ message_jobs(p) \in Stage   /\ message_jobs(p)[1] = "message_jobs"
       /\ query_queue(p) \in Stage    /\ query_queue(p)[1] = "query_queue"
       /\ \A j \in DbJob :
            db_queue(p, j) \in Stage  /\ db_queue(p, j)[1] = "db_queue"
BY DEF Stage, querybatch_pool, query_results, result_jobs, query_replies,
       out_local_queue, leaked, in_local_queue, msg_queue, message_jobs,
       query_queue, db_queue

\* Stages of one name are the same only if their parameters are.
LEMMA StageParameters ==
  /\ in_local_queue("read") # in_local_queue("write")
  /\ query_queue("read") # query_queue("write")
  /\ \A p, q \in Path, i, j \in DbJob :
       db_queue(p, i) = db_queue(q, j) => p = q /\ i = j
BY DEF in_local_queue, query_queue, db_queue, Path

\* Every batch in h2 is one of h's.
Within(h2, h) ==
  \A s \in Stage : \A i \in DOMAIN h2[s] :
    \E t \in Stage : \E k \in DOMAIN h[t] : h2[s][i] = h[t][k]

\* What is within a part is within the whole.
LEMMA WithinTransitive ==
  ASSUME NEW h, NEW h1, NEW h2, Within(h, h1), Within(h1, h2)
  PROVE  Within(h, h2)
BY DEF Within

\* Moving the whole of one stage behind another keeps batches owned once.
LEMMA MoveAllOwned ==
  ASSUME NEW h \in [Stage -> Seq(Batch)], Owned(h),
         NEW from \in Stage, NEW to \in Stage, from # to
  PROVE  LET h2 == [h EXCEPT ![from] = <<>>, ![to] = h[to] \o h[from]]
         IN  /\ h2 \in [Stage -> Seq(Batch)] /\ Owned(h2)
             /\ Within(h2, h) /\ Within(h, h2)
<1> DEFINE h2 == [h EXCEPT ![from] = <<>>, ![to] = h[to] \o h[from]]
<1>1. /\ h[to] \o h[from] \in Seq(Batch)
      /\ Len(h[to] \o h[from]) = Len(h[to]) + Len(h[from])
      /\ \A i \in 1..(Len(h[to]) + Len(h[from])) : (h[to] \o h[from])[i] =
           IF i <= Len(h[to]) THEN h[to][i] ELSE h[from][i - Len(h[to])]
  BY ConcatProperties
<1>2. /\ h2[from] = <<>>
      /\ h2[to] = h[to] \o h[from]
      /\ \A s \in Stage \ {from, to} : h2[s] = h[s]
      /\ h2 \in [Stage -> Seq(Batch)]
  BY <1>1, EmptySeq
<1> HIDE DEF h2
\* where the batch at a place of h2 was in h
<1> DEFINE S0(s, i) == IF s = to /\ i > Len(h[to]) THEN from ELSE s
           I0(s, i) == IF s = to /\ i > Len(h[to]) THEN i - Len(h[to]) ELSE i
<1>3. ASSUME NEW s \in Stage, NEW i \in DOMAIN h2[s]
      PROVE  /\ S0(s, i) \in Stage /\ I0(s, i) \in DOMAIN h[S0(s, i)]
             /\ h2[s][i] = h[S0(s, i)][I0(s, i)]
             /\ s # from /\ i \in Nat \ {0}
             /\ h[to] \in Seq(Batch) /\ Len(h[to]) \in Nat
             /\ S0(s, i) = from => s = to /\ i > Len(h[to])
  <2>1. s # from
    BY <1>2
  <2>2. CASE s = to
    BY <2>1, <2>2, <1>1, <1>2
  <2>3. CASE s # to
    BY <2>1, <2>3, <1>2
  <2>4. QED  BY <2>2, <2>3
<1>4. ASSUME NEW s \in Stage, NEW t \in Stage,
             NEW i \in DOMAIN h2[s], NEW k \in DOMAIN h2[t],
             h2[s][i] = h2[t][k]
      PROVE  s = t /\ i = k
  <2>1. S0(s, i) = S0(t, k) /\ I0(s, i) = I0(t, k)
    <3> HIDE DEF S0, I0
    <3> QED BY <1>3, <1>4 DEF Owned
  <2>2. QED  BY <2>1, <1>3
<1>5. Within(h, h2)
  <2> SUFFICES ASSUME NEW s \in Stage, NEW i \in DOMAIN h[s]
               PROVE  \E t \in Stage : \E k \in DOMAIN h2[t] : h[s][i] = h2[t][k]
    BY DEF Within
  <2>1. CASE s = from
    <3>1. Len(h[to]) + i \in DOMAIN h2[to] /\ h2[to][Len(h[to]) + i] = h[s][i]
      BY <2>1, <1>1, <1>2, LenProperties
    <3>2. QED  BY <3>1
  <2>2. CASE s = to
    <3>1. i \in DOMAIN h2[to] /\ h2[to][i] = h[s][i]
      BY <2>2, <1>1, <1>2, LenProperties
    <3>2. QED  BY <3>1
  <2>3. CASE s \notin {from, to}
    BY <2>3, <1>2
  <2>4. QED  BY <2>1, <2>2, <2>3
<1>6. Within(h2, h)
  <2> HIDE DEF S0, I0
  <2> QED BY <1>3 DEF Within
<1>7. QED  BY <1>2, <1>4, <1>5, <1>6 DEF Owned, h2

\* So does moving one batch to the end of another stage.
LEMMA MoveOneOwned ==
  ASSUME NEW h \in [Stage -> Seq(Batch)], Owned(h),
         NEW from \in Stage, NEW to \in Stage, from # to,
         NEW n \in DOMAIN h[from]
  PROVE  LET h2 == [h EXCEPT ![from] = RemoveAt(h[from], n),
                             ![to]   = Append(h[to], h[from][n])]
         IN  /\ h2 \in [Stage -> Seq(Batch)] /\ Owned(h2)
             /\ Within(h2, h) /\ Within(h, h2)
<1> DEFINE h2 == [h EXCEPT ![from] = RemoveAt(h[from], n),
                           ![to]   = Append(h[to], h[from][n])]
<1>1. /\ h[from] \in Seq(Batch) /\ h[to] \in Seq(Batch)
      /\ n \in 1..Len(h[from]) /\ h[from][n] \in Batch
      /\ Len(h[from]) \in Nat /\ Len(h[to]) \in Nat
  BY ElementOfSeq
<1>2. /\ h2[from] = RemoveAt(h[from], n)
      /\ h2[to] = Append(h[to], h[from][n])
      /\ \A s \in Stage \ {from, to} : h2[s] = h[s]
      /\ h2 \in [Stage -> Seq(Batch)]
  BY <1>1, RemoveAtProperties, AppendProperties
<1> HIDE DEF h2
\* where the batch at a place of h2 was in h
<1> DEFINE S0(s, i) == IF s = to /\ i > Len(h[to]) THEN from ELSE s
           I0(s, i) == IF s = to /\ i > Len(h[to]) THEN n
                       ELSE IF s = from /\ i >= n THEN i + 1 ELSE i
<1>3. ASSUME NEW s \in Stage, NEW i \in DOMAIN h2[s]
      PROVE  /\ S0(s, i) \in Stage /\ I0(s, i) \in DOMAIN h[S0(s, i)]
             /\ h2[s][i] = h[S0(s, i)][I0(s, i)]
             /\ i \in Nat \ {0}
             /\ s = to => i <= Len(h[to]) + 1
  <2>1. CASE s = to
    <3>1. /\ h2[s] = Append(h[to], h[from][n])
          /\ Len(h2[s]) = Len(h[to]) + 1
          /\ \A k \in 1..Len(h[to]) : h2[s][k] = h[to][k]
          /\ h2[s][Len(h[to]) + 1] = h[from][n]
      BY <2>1, <1>1, <1>2, AppendProperties
    <3>2. i \in 1..(Len(h[to]) + 1)
      BY <3>1, <1>1, <1>2, LenProperties
    <3>3. QED  BY <2>1, <3>1, <3>2, <1>1
  <2>2. CASE s = from
    <3>0. h2[s] = RemoveAt(h[from], n)
      BY <2>2, <1>2
    <3>1. /\ h2[s] \in Seq(Batch) /\ Len(h2[s]) = Len(h[from]) - 1
          /\ \A k \in 1..(Len(h[from]) - 1) :
               h2[s][k] = IF k < n THEN h[from][k] ELSE h[from][k + 1]
      BY <3>0, <1>1, RemoveAtProperties
    <3>2. i \in 1..(Len(h[from]) - 1)
      BY <3>1, <1>1, LenProperties
    <3>3. QED  BY <2>2, <3>1, <3>2, <1>1
  <2>3. CASE s \notin {from, to}
    BY <2>3, <1>1, <1>2
  <2>4. QED  BY <2>1, <2>2, <2>3
<1>4. ASSUME NEW s \in Stage, NEW t \in Stage,
             NEW i \in DOMAIN h2[s], NEW k \in DOMAIN h2[t],
             h2[s][i] = h2[t][k]
      PROVE  s = t /\ i = k
  <2>1. S0(s, i) = S0(t, k) /\ I0(s, i) = I0(t, k)
    <3> HIDE DEF S0, I0
    <3> QED BY <1>3, <1>4 DEF Owned
  <2>2. QED  BY <2>1, <1>1, <1>3
<1>5. Within(h2, h)
  <2> HIDE DEF S0, I0
  <2> QED BY <1>3 DEF Within
<1>6. Within(h, h2)
  <2> SUFFICES ASSUME NEW s \in Stage, NEW i \in DOMAIN h[s]
               PROVE  \E t \in Stage : \E k \in DOMAIN h2[t] : h[s][i] = h2[t][k]
    BY DEF Within
  <2>1. /\ h2[to] \in Seq(Batch) /\ Len(h2[to]) = Len(h[to]) + 1
        /\ h2[to][Len(h[to]) + 1] = h[from][n]
        /\ \A k \in 1..Len(h[to]) : h2[to][k] = h[to][k]
    BY <1>1, <1>2, AppendProperties
  <2>2. /\ h2[from] \in Seq(Batch) /\ Len(h2[from]) = Len(h[from]) - 1
        /\ \A k \in 1..(Len(h[from]) - 1) :
             h2[from][k] = IF k < n THEN h[from][k] ELSE h[from][k + 1]
    <3>1. h2[from] = RemoveAt(h[from], n)
      BY <1>2
    <3>2. QED  BY <3>1, <1>1, RemoveAtProperties
  <2>3. CASE s = from /\ i = n
    <3>1. Len(h[to]) + 1 \in DOMAIN h2[to]
      BY <2>1, <1>1, LenProperties
    <3>2. QED  BY <3>1, <2>1, <2>3
  <2>4. CASE s = from /\ i # n
    <3>1. CASE i < n
      BY <3>1, <2>2, <2>4, <1>1, LenProperties
    <3>2. CASE i > n
      <4>1. DOMAIN h[from] = 1..Len(h[from]) /\ DOMAIN h2[from] = 1..Len(h2[from])
        BY <2>2, <1>1, LenProperties
      <4>2. i \in 1..Len(h[from])
        BY <4>1, <2>4
      <4>3. /\ i - 1 \in 1..(Len(h[from]) - 1)
            /\ ~(i - 1 < n) /\ (i - 1) + 1 = i
        BY <4>2, <3>2, <1>1
      <4>4. i - 1 \in DOMAIN h2[from]
        BY <4>1, <4>3, <2>2
      <4>5. h2[from][i - 1] = h[from][i]
        <5> DEFINE m == i - 1
        <5>1. m \in 1..(Len(h[from]) - 1) /\ ~(m < n) /\ m + 1 = i
          BY <4>3
        <5> HIDE DEF m
        <5>2. h2[from][m] = h[from][m + 1]
          BY <5>1, <2>2
        <5>3. h2[from][m] = h[from][i]
          BY <5>1, <5>2
        <5>4. QED  BY <5>3 DEF m
      <4>6. QED  BY <4>4, <4>5, <2>4
    <3>3. i \in Nat /\ n \in Nat
      BY <2>4, <1>1, LenProperties
    <3>4. QED  BY <3>1, <3>2, <3>3, <2>4
  <2>5. CASE s = to
    BY <2>5, <2>1, <1>1, LenProperties
  <2>6. CASE s \notin {from, to}
    BY <2>6, <1>2
  <2>7. QED  BY <2>3, <2>4, <2>5, <2>6
<1>7. QED  BY <1>2, <1>4, <1>5, <1>6 DEF Owned, h2

\* And so does giving an empty stage a batch no stage has.
LEMMA NewBatchOwned ==
  ASSUME NEW h \in [Stage -> Seq(Batch)], Owned(h),
         NEW to \in Stage, h[to] = <<>>,
         NEW new \in Batch, \A s \in Stage : \A i \in DOMAIN h[s] : h[s][i] # new
  PROVE  LET h2 == [h EXCEPT ![to] = <<new>>]
         IN  h2 \in [Stage -> Seq(Batch)] /\ Owned(h2) /\ Within(h, h2)
<1> DEFINE h2 == [h EXCEPT ![to] = <<new>>]
<1>1. h2 \in [Stage -> Seq(Batch)] /\ h2[to] = <<new>>
      /\ \A s \in Stage \ {to} : h2[s] = h[s]
  OBVIOUS
<1> HIDE DEF h2
<1>2. Within(h, h2)
  BY <1>1 DEF Within
<1>3. QED  BY <1>1, <1>2 DEF Owned, h2

-----------------------------------------------------------------------------
(* The batches: every step leaves each where exactly one stage has it.     *)

BatchInv ==
  /\ held \in [Stage -> Seq(Batch)]
  /\ db_phase \in [DbJob -> {"idle", "reads", "writes"}]
  /\ OneOwner
  /\ StageShape

\* A receiver hands its batch to its workers and takes one of the pool.
LEMMA TransferBatches ==
  ASSUME BatchInv, NEW p \in Path, Transfer(p)
  PROVE  BatchInv' /\ Within(held, held')
<1> DEFINE local == in_local_queue(p)
           h1 == [held EXCEPT ![local] = RemoveAt(held[local], 1),
                              ![msg_queue(p)] = Append(held[msg_queue(p)], held[local][1])]
<1>1. /\ local \in Stage /\ msg_queue(p) \in Stage /\ querybatch_pool \in Stage
      /\ local # msg_queue(p) /\ local # querybatch_pool
      /\ msg_queue(p) # querybatch_pool
  BY StageFacts
<1>2. /\ held[local] \in Seq(Batch) /\ Len(held[local]) = 1 /\ 1 \in DOMAIN held[local]
      /\ Head(held[local]) = held[local][1]
  BY <1>1 DEF BatchInv, StageShape
<1>3. /\ h1 \in [Stage -> Seq(Batch)] /\ Owned(h1)
      /\ Within(h1, held) /\ Within(held, h1)
  BY <1>1, <1>2, MoveOneOwned DEF BatchInv, OneOwner
<1>4. h1[local] = <<>>
  <2>1. RemoveAt(held[local], 1) \in Seq(Batch) /\ Len(RemoveAt(held[local], 1)) = 0
    BY <1>2, RemoveAtProperties
  <2>2. QED  BY <2>1, <1>1, EmptySeq DEF BatchInv
<1>5. held' \in [Stage -> Seq(Batch)] /\ Owned(held') /\ Within(held, held')
  <2>1. CASE \E i \in DOMAIN held[querybatch_pool] :
               held' = [held EXCEPT
                          ![querybatch_pool] = RemoveAt(@, i),
                          ![local] = <<held[querybatch_pool][i]>>,
                          ![msg_queue(p)] = Append(@, Head(held[local]))]
    <3>1. PICK i \in DOMAIN held[querybatch_pool] :
               held' = [held EXCEPT
                          ![querybatch_pool] = RemoveAt(@, i),
                          ![local] = <<held[querybatch_pool][i]>>,
                          ![msg_queue(p)] = Append(@, Head(held[local]))]
      BY <2>1
    <3> DEFINE h2 == [h1 EXCEPT
                        ![querybatch_pool] = RemoveAt(h1[querybatch_pool], i),
                        ![local] = Append(h1[local], h1[querybatch_pool][i])]
    <3>2. h1[querybatch_pool] = held[querybatch_pool]
      BY <1>1 DEF BatchInv
    <3>3. h2 \in [Stage -> Seq(Batch)] /\ Owned(h2) /\ Within(h1, h2)
      <4> HIDE DEF h1
      <4> QED BY <1>1, <1>3, <3>2, MoveOneOwned
    <3>4. Append(<<>>, held[querybatch_pool][i]) = <<held[querybatch_pool][i]>>
      OBVIOUS
    <3>5. h2 = held'
      BY <1>1, <1>2, <1>4, <3>1, <3>2, <3>4 DEF BatchInv
    <3>6. QED  BY <1>3, <3>3, <3>5, WithinTransitive
  <2>2. CASE \E new \in Batch \ Created :
               held' = [held EXCEPT ![local] = <<new>>,
                                    ![msg_queue(p)] = Append(@, Head(held[local]))]
    <3>1. PICK new \in Batch \ Created :
               held' = [held EXCEPT ![local] = <<new>>,
                                    ![msg_queue(p)] = Append(@, Head(held[local]))]
      BY <2>2
    <3> DEFINE h2 == [h1 EXCEPT ![local] = <<new>>]
    <3>2. \A s \in Stage : \A i \in DOMAIN h1[s] : h1[s][i] # new
      <4>1. \A t \in Stage : \A k \in DOMAIN held[t] : held[t][k] # new
        BY DEF Created, ToSet
      <4> HIDE DEF h1
      <4>2. QED  BY <4>1, <1>3 DEF Within
    <3>3. h2 \in [Stage -> Seq(Batch)] /\ Owned(h2) /\ Within(h1, h2)
      <4> HIDE DEF h1
      <4> QED BY <1>1, <1>3, <1>4, <3>2, NewBatchOwned
    <3>4. h2 = held'
      BY <1>1, <1>2, <3>1 DEF BatchInv
    <3>5. QED  BY <1>3, <3>3, <3>4, WithinTransitive
  <2>3. QED  BY <2>1, <2>2 DEF Transfer
<1>6. StageShape'
  <2>1. \A s \in Stage \ {querybatch_pool, local, msg_queue(p)} : held'[s] = held[s]
    BY <1>1 DEF Transfer, BatchInv
  <2>2. Len(held'[local]) = 1
    BY <1>1 DEF Transfer, BatchInv
  <2>3. db_phase' = db_phase
    BY DEF Transfer
  <2>4. \A q \in Path : Len(held'[in_local_queue(q)]) = 1
    BY <2>1, <2>2, StageFacts DEF BatchInv, StageShape
  <2>5. held'[out_local_queue] = held[out_local_queue]
    BY <2>1, StageFacts
  <2>6. \A q \in Path, j \in DbJob : held'[db_queue(q, j)] = held[db_queue(q, j)]
    BY <2>1, StageFacts
  <2> HIDE DEF h1, local
  <2>7. QED  BY <2>3, <2>4, <2>5, <2>6 DEF BatchInv, StageShape, Path
<1>7. QED  BY <1>5, <1>6 DEF BatchInv, OneOwner, Transfer

\* A receiver that is restarted leaves its batches to nobody and takes one of the pool.
LEMMA RestartBatches ==
  ASSUME BatchInv, NEW p \in Path, Restart(p)
  PROVE  BatchInv' /\ Within(held, held')
<1> DEFINE local == in_local_queue(p)
           answered == IF p = "read" THEN held[out_local_queue] ELSE <<>>
           kept == IF p = "read" THEN <<>> ELSE held[out_local_queue]
           h1 == [held EXCEPT ![local] = <<>>, ![leaked] = held[leaked] \o held[local]]
           h2 == IF p = "read"
                 THEN [h1 EXCEPT ![out_local_queue] = <<>>,
                                 ![leaked] = h1[leaked] \o h1[out_local_queue]]
                 ELSE h1
           lost == held[leaked] \o (held[local] \o answered)
<1>1. /\ local \in Stage /\ leaked \in Stage /\ querybatch_pool \in Stage
      /\ out_local_queue \in Stage
      /\ local # leaked /\ local # querybatch_pool /\ local # out_local_queue
      /\ leaked # querybatch_pool /\ leaked # out_local_queue
      /\ querybatch_pool # out_local_queue
  BY StageFacts
<1>2. /\ held \in [Stage -> Seq(Batch)]
      /\ held[local] \in Seq(Batch) /\ held[leaked] \in Seq(Batch)
      /\ held[out_local_queue] \in Seq(Batch) /\ held[querybatch_pool] \in Seq(Batch)
  BY <1>1 DEF BatchInv
<1>3. /\ h1 \in [Stage -> Seq(Batch)] /\ Owned(h1)
      /\ Within(h1, held) /\ Within(held, h1)
  BY <1>1, MoveAllOwned DEF BatchInv, OneOwner
<1>4. /\ h2 \in [Stage -> Seq(Batch)] /\ Owned(h2)
      /\ Within(h2, held) /\ Within(held, h2)
  <2>1. CASE p = "read"
    <3> DEFINE h3 == [h1 EXCEPT ![out_local_queue] = <<>>,
                                ![leaked] = h1[leaked] \o h1[out_local_queue]]
    <3>1. /\ h3 \in [Stage -> Seq(Batch)] /\ Owned(h3)
          /\ Within(h3, h1) /\ Within(h1, h3)
      <4> HIDE DEF h1
      <4> QED BY <1>1, <1>3, MoveAllOwned
    <3>2. h2 = h3
      BY <2>1
    <3> HIDE DEF h1, h2, h3
    <3>3. QED  BY <1>3, <3>1, <3>2, WithinTransitive
  <2>2. CASE p # "read"
    BY <2>2, <1>3
  <2>3. QED  BY <2>1, <2>2
<1>5. /\ h2 = [held EXCEPT ![local] = <<>>, ![leaked] = lost, ![out_local_queue] = kept]
      /\ h2[local] = <<>> /\ h2[querybatch_pool] = held[querybatch_pool]
  <2>1. CASE p = "read"
    <3>1. lost = (held[leaked] \o held[local]) \o held[out_local_queue]
      <4>1. lost = held[leaked] \o (held[local] \o held[out_local_queue])
        BY <2>1
      <4>2. (held[leaked] \o held[local]) \o held[out_local_queue]
              = held[leaked] \o (held[local] \o held[out_local_queue])
        <5>1. ASSUME NEW x \in Seq(Batch), NEW y \in Seq(Batch), NEW z \in Seq(Batch)
              PROVE  (x \o y) \o z = x \o (y \o z)
          BY ConcatAssociative
        <5> HIDE DEF local
        <5> QED BY <1>2, <5>1
      <4> HIDE DEF lost
      <4>3. QED  BY <4>1, <4>2
    <3>2. h1[leaked] \o h1[out_local_queue] = lost
      BY <3>1, <1>1, <1>2
    <3>3. h2 = [h1 EXCEPT ![out_local_queue] = <<>>, ![leaked] = lost]
      BY <2>1, <3>2
    <3> HIDE DEF lost
    <3>4. QED  BY <2>1, <3>3, <1>1, <1>2
  <2>2. CASE p # "read"
    <3>1. held[local] \o <<>> = held[local]
      BY <1>2, ConcatEmptySeq
    <3>2. lost = held[leaked] \o held[local]
      BY <2>2, <3>1
    <3> HIDE DEF lost
    <3>3. QED  BY <2>2, <3>2, <1>1, <1>2
  <2>3. QED  BY <2>1, <2>2
<1> HIDE DEF h1, h2
<1> DEFINE f == [held EXCEPT ![leaked] = lost]
<1>6. f = Forgotten(p) /\ f[querybatch_pool] = held[querybatch_pool]
  BY <1>1, <1>2 DEF Forgotten, Private
<1>7. held' \in [Stage -> Seq(Batch)] /\ Owned(held') /\ Within(held, held')
  <2>1. CASE \E i \in DOMAIN f[querybatch_pool] :
               held' = [f EXCEPT ![querybatch_pool] = RemoveAt(@, i),
                                 ![local] = <<f[querybatch_pool][i]>>,
                                 ![out_local_queue] = kept]
    <3>1. PICK i \in DOMAIN f[querybatch_pool] :
               held' = [f EXCEPT ![querybatch_pool] = RemoveAt(@, i),
                                 ![local] = <<f[querybatch_pool][i]>>,
                                 ![out_local_queue] = kept]
      BY <2>1
    <3> HIDE DEF lost, kept
    <3> DEFINE h3 == [h2 EXCEPT
                        ![querybatch_pool] = RemoveAt(h2[querybatch_pool], i),
                        ![local] = Append(h2[local], h2[querybatch_pool][i])]
    <3>2. h3 \in [Stage -> Seq(Batch)] /\ Owned(h3) /\ Within(h2, h3)
      BY <1>1, <1>4, <1>5, <1>6, MoveOneOwned
    <3>3. Append(<<>>, held[querybatch_pool][i]) = <<held[querybatch_pool][i]>>
      OBVIOUS
    <3>4. h3 = held'
      BY <1>1, <1>2, <1>5, <1>6, <3>1, <3>3
    <3>5. QED  BY <1>4, <3>2, <3>4, WithinTransitive
  <2>2. CASE \E new \in Batch \ Created :
               held' = [f EXCEPT ![local] = <<new>>, ![out_local_queue] = kept]
    <3>1. PICK new \in Batch \ Created :
               held' = [f EXCEPT ![local] = <<new>>, ![out_local_queue] = kept]
      BY <2>2
    <3> HIDE DEF lost, kept
    <3> DEFINE h3 == [h2 EXCEPT ![local] = <<new>>]
    <3>2. \A s \in Stage : \A i \in DOMAIN h2[s] : h2[s][i] # new
      <4>1. \A t \in Stage : \A k \in DOMAIN held[t] : held[t][k] # new
        BY DEF Created, ToSet
      <4>2. QED  BY <4>1, <1>4 DEF Within
    <3>3. h3 \in [Stage -> Seq(Batch)] /\ Owned(h3) /\ Within(h2, h3)
      BY <1>1, <1>4, <1>5, <3>2, NewBatchOwned
    <3>4. h3 = held'
      BY <1>1, <1>2, <1>5, <3>1
    <3>5. QED  BY <1>4, <3>3, <3>4, WithinTransitive
  <2> HIDE DEF f
  <2>3. QED  BY <2>1, <2>2, <1>6 DEF Restart
<1>8. StageShape'
  <2>1. /\ \A s \in Stage \ {querybatch_pool, local, leaked, out_local_queue} :
             held'[s] = held[s]
        /\ Len(held'[local]) = 1
        /\ held'[out_local_queue] = kept
    BY <1>1, <1>2 DEF Restart, Forgotten
  <2>2. \A q \in Path : Len(held'[in_local_queue(q)]) = 1
    BY <2>1, StageFacts DEF BatchInv, StageShape
  <2>3. Len(held'[out_local_queue]) <= 1
    BY <2>1 DEF BatchInv, StageShape
  <2>4. \A q \in Path, j \in DbJob : held'[db_queue(q, j)] = held[db_queue(q, j)]
    BY <2>1, StageFacts
  <2>5. db_phase' = db_phase
    BY DEF Restart
  <2> HIDE DEF local, kept, lost, answered, f
  <2>6. QED  BY <2>2, <2>3, <2>4, <2>5 DEF BatchInv, StageShape, Path
<1>9. QED  BY <1>7, <1>8 DEF BatchInv, OneOwner, Restart

\* StageShape speaks of three kinds of stage and of db_phase only.
LEMMA ShapeKept ==
  ASSUME BatchInv, db_phase' = db_phase,
         \A s \in Stage :
           s[1] \in {"in_local_queue", "out_local_queue", "db_queue"} => held'[s] = held[s]
  PROVE  StageShape'
<1>1. /\ \A p \in Path : held'[in_local_queue(p)] = held[in_local_queue(p)]
      /\ held'[out_local_queue] = held[out_local_queue]
      /\ \A p \in Path, j \in DbJob : held'[db_queue(p, j)] = held[db_queue(p, j)]
  BY StageFacts
<1>2. QED  BY <1>1 DEF BatchInv, StageShape, Path

Plain(s) == s[1] \notin {"in_local_queue", "out_local_queue", "db_queue"}

\* A distributor takes all of a stage no length matters of to another such.
LEMMA MoveAllBatches ==
  ASSUME BatchInv, db_phase' = db_phase,
         NEW from \in Stage, NEW to \in Stage, from # to, Plain(from), Plain(to),
         MoveAll(from, to)
  PROVE  BatchInv' /\ Within(held, held')
<1>1. held' = [held EXCEPT ![from] = <<>>, ![to] = held[to] \o held[from]]
  BY DEF MoveAll
<1>2. held' \in [Stage -> Seq(Batch)] /\ Owned(held') /\ Within(held, held')
  BY <1>1, MoveAllOwned DEF BatchInv, OneOwner
<1>3. \A s \in Stage \ {from, to} : held'[s] = held[s]
  BY <1>1 DEF BatchInv
<1>4. StageShape'
  BY <1>3, ShapeKept DEF Plain
<1>5. QED  BY <1>2, <1>4 DEF BatchInv, OneOwner

\* A worker job, ended or failed, takes one batch of such a stage to another.
LEMMA MoveOneBatches ==
  ASSUME BatchInv, db_phase' = db_phase,
         NEW from \in Stage, NEW to \in Stage, from # to, Plain(from), Plain(to),
         \E i \in DOMAIN held[from] : MoveOne(from, i, to)
  PROVE  BatchInv' /\ Within(held, held')
<1>1. PICK i \in DOMAIN held[from] :
         held' = [held EXCEPT ![from] = RemoveAt(held[from], i),
                              ![to]   = Append(held[to], held[from][i])]
  BY DEF MoveOne
<1>2. held' \in [Stage -> Seq(Batch)] /\ Owned(held') /\ Within(held, held')
  BY <1>1, MoveOneOwned DEF BatchInv, OneOwner
<1>3. \A s \in Stage \ {from, to} : held'[s] = held[s]
  BY <1>1 DEF BatchInv
<1>4. StageShape'
  BY <1>3, ShapeKept DEF Plain
<1>5. QED  BY <1>2, <1>4 DEF BatchInv, OneOwner

\* The sender returns its batch to the pool and takes the next one.
LEMMA FetchRepliesBatches ==
  ASSUME BatchInv, FetchReplies
  PROVE  BatchInv' /\ Within(held, held')
<1> DEFINE out == out_local_queue
           h1 == [held EXCEPT ![out] = <<>>,
                              ![querybatch_pool] = held[querybatch_pool] \o held[out]]
           h2 == [h1 EXCEPT ![query_replies] = RemoveAt(h1[query_replies], 1),
                            ![out] = Append(h1[out], h1[query_replies][1])]
<1>1. /\ out \in Stage /\ querybatch_pool \in Stage /\ query_replies \in Stage
      /\ out # querybatch_pool /\ out # query_replies
      /\ querybatch_pool # query_replies
  BY StageFacts
<1>2. h1 \in [Stage -> Seq(Batch)] /\ Owned(h1) /\ Within(held, h1)
  BY <1>1, MoveAllOwned DEF BatchInv, OneOwner
<1>3. /\ h1[out] = <<>> /\ h1[query_replies] = held[query_replies]
      /\ held[query_replies] \in Seq(Batch) /\ held[query_replies] # <<>>
  BY <1>1 DEF BatchInv, FetchReplies, AnsweredBatch
<1>4. /\ 1 \in DOMAIN held[query_replies]
      /\ held[query_replies][1] = Head(held[query_replies])
      /\ Append(<<>>, held[query_replies][1]) = <<Head(held[query_replies])>>
  BY <1>3, EmptySeq
<1>5. RemoveAt(held[query_replies], 1) = Tail(held[query_replies])
  <2>1. /\ RemoveAt(held[query_replies], 1) \in Seq(Batch)
        /\ Len(RemoveAt(held[query_replies], 1)) = Len(held[query_replies]) - 1
        /\ \A k \in 1..(Len(held[query_replies]) - 1) :
             RemoveAt(held[query_replies], 1)[k] = held[query_replies][k + 1]
    BY <1>3, <1>4, RemoveAtProperties
  <2>2. /\ Tail(held[query_replies]) \in Seq(Batch)
        /\ Len(Tail(held[query_replies])) = Len(held[query_replies]) - 1
        /\ \A k \in 1..(Len(held[query_replies]) - 1) :
             Tail(held[query_replies])[k] = held[query_replies][k + 1]
    BY <1>3, HeadTailProperties
  <2>3. QED  BY <2>1, <2>2, SeqEqual
<1>6. h2 \in [Stage -> Seq(Batch)] /\ Owned(h2) /\ Within(h1, h2)
  <2> HIDE DEF h1
  <2> QED BY <1>1, <1>2, <1>3, <1>4, MoveOneOwned
<1>7. h2 = held'
  BY <1>1, <1>3, <1>4, <1>5 DEF BatchInv, FetchReplies, AnsweredBatch, PoolWith
<1>8. StageShape'
  <2>1. /\ \A s \in Stage \ {querybatch_pool, out, query_replies} : held'[s] = held[s]
        /\ Len(held'[out]) = 1
        /\ db_phase' = db_phase
    BY <1>1 DEF FetchReplies, BatchInv
  <2>2. /\ \A p \in Path : held'[in_local_queue(p)] = held[in_local_queue(p)]
        /\ \A p \in Path, j \in DbJob : held'[db_queue(p, j)] = held[db_queue(p, j)]
    BY <2>1, StageFacts
  <2>3. QED  BY <2>1, <2>2 DEF BatchInv, StageShape, Path
<1>9. QED  BY <1>2, <1>6, <1>7, <1>8, WithinTransitive DEF BatchInv, OneOwner, FetchReplies

\* A database job is given everything in the two query queues.
LEMMA DatabaseDistributeBatches ==
  ASSUME BatchInv, NEW j \in DbJob, DatabaseDistribute(j)
  PROVE  BatchInv' /\ Within(held, held')
<1> DEFINE wq == query_queue("write")
           rq == query_queue("read")
           wdb == db_queue("write", j)
           rdb == db_queue("read", j)
           h1 == [held EXCEPT ![wq] = <<>>, ![wdb] = held[wdb] \o held[wq]]
           h2 == [h1 EXCEPT ![rq] = <<>>, ![rdb] = h1[rdb] \o h1[rq]]
<1>1. /\ wq \in Stage /\ rq \in Stage /\ wdb \in Stage /\ rdb \in Stage
      /\ wq # rq /\ wdb # rdb /\ wq # wdb /\ wq # rdb /\ rq # wdb /\ rq # rdb
  BY StageFacts, StageParameters DEF Path
<1>2. held[wdb] = <<>> /\ held[rdb] = <<>>
  BY DEF BatchInv, StageShape, DatabaseDistribute
<1>3. h1 \in [Stage -> Seq(Batch)] /\ Owned(h1) /\ Within(held, h1)
  BY <1>1, MoveAllOwned DEF BatchInv, OneOwner
<1>4. /\ h1[rdb] = <<>> /\ h1[rq] = held[rq]
      /\ held[rq] \in Seq(Batch) /\ held[wq] \in Seq(Batch)
  BY <1>1, <1>2 DEF BatchInv
<1>5. h2 \in [Stage -> Seq(Batch)] /\ Owned(h2) /\ Within(h1, h2)
  <2> HIDE DEF h1, wq, rq, wdb, rdb
  <2> QED BY <1>1, <1>3, MoveAllOwned
<1>6. <<>> \o held[wq] = held[wq] /\ <<>> \o held[rq] = held[rq]
  BY <1>4, ConcatEmptySeq
<1>7. h2 = held'
  <2>1. held' = [held EXCEPT ![wdb] = held[wq], ![wq] = <<>>,
                             ![rdb] = held[rq], ![rq] = <<>>]
    BY DEF DatabaseDistribute
  <2> HIDE DEF wq, rq, wdb, rdb
  <2>2. QED  BY <2>1, <1>1, <1>2, <1>4, <1>6 DEF BatchInv
<1>8. StageShape'
  <2>1. /\ \A s \in Stage \ {wq, rq, wdb, rdb} : held'[s] = held[s]
        /\ db_phase' = [db_phase EXCEPT ![j] = "reads"]
    BY <1>1 DEF DatabaseDistribute, BatchInv
  <2>2. /\ \A p \in Path : held'[in_local_queue(p)] = held[in_local_queue(p)]
        /\ held'[out_local_queue] = held[out_local_queue]
        /\ \A p \in Path, k \in DbJob \ {j} : held'[db_queue(p, k)] = held[db_queue(p, k)]
    BY <2>1, StageFacts, StageParameters DEF Path
  <2>3. \A k \in DbJob \ {j} : db_phase'[k] = db_phase[k]
    BY <2>1
  <2>4. db_phase'[j] = "reads"
    BY <2>1 DEF BatchInv
  <2>5. QED  BY <2>2, <2>3, <2>4 DEF BatchInv, StageShape, Path
<1>9. db_phase' \in [DbJob -> {"idle", "reads", "writes"}]
  BY DEF BatchInv, DatabaseDistribute
<1>10. QED  BY <1>3, <1>5, <1>7, <1>8, <1>9, WithinTransitive DEF BatchInv, OneOwner

\* A database job hands its read or its write batches to the result workers.
LEMMA DatabasePartBatches ==
  ASSUME BatchInv, NEW j \in DbJob, DatabaseReads(j) \/ DatabaseWrites(j)
  PROVE  BatchInv' /\ Within(held, held')
<1>1. PICK p \in Path, next \in {"writes", "idle"} :
        /\ DatabasePart(p, j, next)
        /\ \/ p = "read" /\ next = "writes"
           \/ p = "write" /\ next = "idle" /\ db_phase[j] = "writes"
  BY DEF DatabaseReads, DatabaseWrites, Path
<1> DEFINE db == db_queue(p, j)
<1>2. db \in Stage /\ query_results \in Stage /\ db # query_results
  BY StageFacts
<1>3. held' = [held EXCEPT ![db] = <<>>, ![query_results] = held[query_results] \o held[db]]
  BY <1>1 DEF DatabasePart, HandOn
<1>4. held' \in [Stage -> Seq(Batch)] /\ Owned(held') /\ Within(held, held')
  BY <1>2, <1>3, MoveAllOwned DEF BatchInv, OneOwner
<1>5. /\ db_phase' = [db_phase EXCEPT ![j] = next]
      /\ db_phase'[j] = next /\ \A k \in DbJob \ {j} : db_phase'[k] = db_phase[k]
      /\ db_phase' \in [DbJob -> {"idle", "reads", "writes"}]
  BY <1>1 DEF DatabasePart, BatchInv
<1>6. StageShape'
  <2>1. held'[db] = <<>> /\ \A s \in Stage \ {db, query_results} : held'[s] = held[s]
    BY <1>2, <1>3 DEF BatchInv
  <2>2. /\ \A q \in Path : held'[in_local_queue(q)] = held[in_local_queue(q)]
        /\ held'[out_local_queue] = held[out_local_queue]
        /\ \A q \in Path, k \in DbJob :
             q # p \/ k # j => held'[db_queue(q, k)] = held[db_queue(q, k)]
    BY <2>1, StageFacts, StageParameters
  <2>3. QED  BY <2>1, <2>2, <1>1, <1>5 DEF BatchInv, StageShape, Path
<1>7. QED  BY <1>4, <1>5, <1>6 DEF BatchInv, OneOwner

\* A failing database job leaks what it has.
LEMMA DatabaseFailBatches ==
  ASSUME BatchInv, NEW j \in DbJob, DatabaseFail(j)
  PROVE  BatchInv' /\ Within(held, held')
<1> DEFINE wdb == db_queue("write", j)
           rdb == db_queue("read", j)
           h1 == [held EXCEPT ![rdb] = <<>>, ![leaked] = held[leaked] \o held[rdb]]
           h2 == [h1 EXCEPT ![wdb] = <<>>, ![leaked] = h1[leaked] \o h1[wdb]]
<1>1. /\ wdb \in Stage /\ rdb \in Stage /\ leaked \in Stage
      /\ wdb # rdb /\ wdb # leaked /\ rdb # leaked
  BY StageFacts, StageParameters DEF Path
<1>2. h1 \in [Stage -> Seq(Batch)] /\ Owned(h1) /\ Within(held, h1)
  BY <1>1, MoveAllOwned DEF BatchInv, OneOwner
<1>3. h2 \in [Stage -> Seq(Batch)] /\ Owned(h2) /\ Within(h1, h2)
  <2> HIDE DEF h1, wdb, rdb
  <2> QED BY <1>1, <1>2, MoveAllOwned
<1>4. h2 = held'
  <2>1. held' = [held EXCEPT ![rdb] = <<>>, ![wdb] = <<>>,
                             ![leaked] = held[leaked] \o held[rdb] \o held[wdb]]
    BY DEF DatabaseFail
  <2> HIDE DEF wdb, rdb
  <2>2. QED  BY <2>1, <1>1 DEF BatchInv
<1>5. /\ db_phase'[j] = "idle" /\ \A k \in DbJob \ {j} : db_phase'[k] = db_phase[k]
      /\ db_phase' \in [DbJob -> {"idle", "reads", "writes"}]
  BY DEF DatabaseFail, BatchInv
<1>6. StageShape'
  <2>1. /\ held'[wdb] = <<>> /\ held'[rdb] = <<>>
        /\ \A s \in Stage \ {wdb, rdb, leaked} : held'[s] = held[s]
    BY <1>1 DEF DatabaseFail, BatchInv
  <2>2. /\ \A q \in Path : held'[in_local_queue(q)] = held[in_local_queue(q)]
        /\ held'[out_local_queue] = held[out_local_queue]
        /\ \A q \in Path, k \in DbJob \ {j} : held'[db_queue(q, k)] = held[db_queue(q, k)]
    BY <2>1, StageFacts, StageParameters DEF Path
  <2>3. QED  BY <2>1, <2>2, <1>5 DEF BatchInv, StageShape, Path
<1>7. QED  BY <1>2, <1>3, <1>4, <1>5, <1>6, WithinTransitive DEF BatchInv, OneOwner

\* A step that leaves both the stages and the database jobs alone.
LEMMA SameBatches ==
  ASSUME BatchInv, UNCHANGED <<held, db_phase>>
  PROVE  BatchInv' /\ Within(held, held')
BY DEF BatchInv, OneOwner, Owned, StageShape, Within

\* Every step keeps the invariant and every batch.
LEMMA BatchesInductive ==
  ASSUME BatchInv, [Next]_vars
  PROVE  BatchInv' /\ Within(held, held')
<1>1. ASSUME NEW p \in Path, ReceiverNext(p)
      PROVE  BatchInv' /\ Within(held, held')
  <2>1. CASE Transfer(p)
    BY <2>1, TransferBatches
  <2>2. CASE NoTransfer(p)
    BY <2>2, SameBatches DEF NoTransfer
  <2>3. CASE \E q \in Query : Receive(p, q)
    BY <2>3, SameBatches DEF Receive
  <2>4. CASE ReceiveBad(p)
    BY <2>4, SameBatches DEF ReceiveBad
  <2>5. CASE NoMessage(p)
    BY <2>5, SameBatches DEF NoMessage
  <2>6. CASE PollError(p)
    BY <2>6, SameBatches DEF PollError
  <2>7. QED
    BY <1>1, <2>1, <2>2, <2>3, <2>4, <2>5, <2>6 DEF ReceiverNext
<1>2. CASE SenderNext
  <2>1. CASE SendReply
    BY <2>1, SameBatches DEF SendReply
  <2>2. CASE PeerNotReady
    BY <2>2, SameBatches DEF PeerNotReady
  <2>3. CASE FetchReplies
    BY <2>3, FetchRepliesBatches
  <2>4. CASE NoReplies
    BY <2>4, SameBatches DEF NoReplies
  <2>5. QED
    BY <1>2, <2>1, <2>2, <2>3, <2>4 DEF SenderNext
<1>3. ASSUME NEW p \in Path,
             DistributeMessages(p) \/ MessageJob(p) \/ MessageFail(p)
      PROVE  BatchInv' /\ Within(held, held')
  <2>1. /\ Plain(msg_queue(p)) /\ Plain(message_jobs(p)) /\ Plain(query_queue(p))
        /\ Plain(leaked) /\ msg_queue(p) # message_jobs(p)
        /\ message_jobs(p) # query_queue(p) /\ message_jobs(p) # leaked
    BY StageFacts DEF Plain
  <2>2. CASE DistributeMessages(p)
    BY <2>1, <2>2, StageFacts, MoveAllBatches DEF DistributeMessages
  <2>3. CASE MessageJob(p)
    BY <2>1, <2>3, StageFacts, MoveOneBatches DEF MessageJob, NextTool
  <2>4. CASE MessageFail(p)
    BY <2>1, <2>4, StageFacts, MoveOneBatches DEF MessageFail
  <2>5. QED
    BY <1>3, <2>2, <2>3, <2>4
<1>4. CASE DistributeResults \/ ResultJob \/ ResultJobFail
  <2>1. /\ Plain(query_results) /\ Plain(result_jobs) /\ Plain(query_replies)
        /\ Plain(leaked) /\ query_results # result_jobs
        /\ result_jobs # query_replies /\ result_jobs # leaked
    BY StageFacts DEF Plain
  <2>2. CASE DistributeResults
    BY <2>1, <2>2, StageFacts, MoveAllBatches DEF DistributeResults
  <2>3. CASE ResultJob
    BY <2>1, <2>3, StageFacts, MoveOneBatches DEF ResultJob
  <2>4. CASE ResultJobFail
    BY <2>1, <2>4, StageFacts, MoveOneBatches DEF ResultJobFail
  <2>5. QED
    BY <1>4, <2>2, <2>3, <2>4
<1>5. CASE DatabaseNext
  BY <1>5, DatabaseDistributeBatches, DatabasePartBatches, DatabaseFailBatches
     DEF DatabaseNext
<1>6. CASE UNCHANGED vars
  BY <1>6, SameBatches DEF vars
<1>7. QED
  BY <1>1, <1>2, <1>3, <1>4, <1>5, <1>6, RestartBatches DEF Next, WorkerNext

\* Only the two receivers have a batch to begin with, and not the same.
LEMMA BatchesInitially == Init => BatchInv
<1> SUFFICES ASSUME Init PROVE BatchInv
  OBVIOUS
<1>1. PICK local \in [Path -> Batch] :
        /\ local["read"] # local["write"]
        /\ held = [s \in Stage |->
                     IF s = in_local_queue("read") THEN <<local["read"]>>
                     ELSE IF s = in_local_queue("write") THEN <<local["write"]>>
                     ELSE <<>>]
  BY DEF Init
<1>2. local["read"] \in Batch /\ local["write"] \in Batch
  BY DEF Path
<1>3. held \in [Stage -> Seq(Batch)]
  BY <1>1, <1>2
<1>4. /\ held[in_local_queue("read")] = <<local["read"]>>
      /\ held[in_local_queue("write")] = <<local["write"]>>
      /\ \A s \in Stage \ {in_local_queue("read"), in_local_queue("write")} : held[s] = <<>>
  BY <1>1, StageFacts, StageParameters DEF Path
<1>5. OneOwner
  BY <1>1, <1>4 DEF OneOwner, Owned
<1>6. StageShape
  <2>1. \A p \in Path : Len(held[in_local_queue(p)]) = 1
    <3>1. Len(<<local["read"]>>) = 1 /\ Len(<<local["write"]>>) = 1
      BY <1>2
    <3>2. Len(held[in_local_queue("read")]) = 1 /\ Len(held[in_local_queue("write")]) = 1
      BY <3>1, <1>4
    <3>3. QED  BY <3>2, Zenon DEF Path
  <2>2. held[out_local_queue] = <<>> /\ Len(<<>>) = 0
    <3>1. out_local_queue \in Stage \ {in_local_queue("read"), in_local_queue("write")}
      BY StageFacts DEF Path
    <3>2. QED  BY <3>1, <1>4
  <2>3. \A p \in Path, j \in DbJob : held[db_queue(p, j)] = <<>>
    <3>1. \A p \in Path, j \in DbJob :
            db_queue(p, j) \in Stage \ {in_local_queue("read"), in_local_queue("write")}
      BY StageFacts DEF Path
    <3>2. QED  BY <3>1, <1>4
  <2>4. QED
    BY <2>1, <2>2, <2>3 DEF StageShape, Path
<1>7. QED
  BY <1>3, <1>5, <1>6 DEF BatchInv, Init

\* Every QueryBatch has one owner at all times, whatever the number of batches,
\* jobs and queries, whichever jobs fail and in whatever order they end.
THEOREM BatchesHaveOneOwner == Spec => []OneOwner
<1>1. BatchInv => OneOwner
  BY DEF BatchInv
<1>2. BatchInv /\ [Next]_vars => BatchInv'
  BY BatchesInductive
<1>3. QED
  BY <1>1, <1>2, BatchesInitially, PTL DEF Spec

\* A receiver always has the one batch it fills, the sender at most the one it
\* answers, and a database job none of those it has handed on.
THEOREM StagesKeepShape == Spec => []StageShape
<1>1. BatchInv /\ [Next]_vars => BatchInv'
  BY BatchesInductive
<1>2. BatchInv => StageShape
  BY DEF BatchInv
<1>3. QED
  BY <1>1, <1>2, BatchesInitially, PTL DEF Spec

\* No step of any tool loses the last pointer to a batch.
THEOREM BatchesAreKept == Spec => NoBatchForgotten
<1>1. BatchInv /\ [Next]_vars => BatchInv'
  BY BatchesInductive
<1>2. BatchInv /\ [Next]_vars => [Created \subseteq Created']_held
  <2> SUFFICES ASSUME BatchInv, [Next]_vars PROVE Created \subseteq Created'
    OBVIOUS
  <2>1. Within(held, held')
    BY BatchesInductive
  <2>2. QED
    BY <2>1 DEF Within, Created, ToSet
<1>3. QED
  BY <1>1, <1>2, BatchesInitially, PTL DEF Spec, NoBatchForgotten

-----------------------------------------------------------------------------
(***************************************************************************)
(* The messages in the batches.  A half-received message (Partial) is the  *)
(* last entry of the batch its receiver is filling, and make_new is false  *)
(* for as long as it is there; it is that pairing which keeps it out of    *)
(* every other tool.  A restart breaks the pair, but nobody has the batch  *)
(* after it.  With that, TypeOK is inductive.                              *)
(***************************************************************************)

\* Nobody has a pointer to the batch any more.
Leaked(b) == \E i \in DOMAIN held[leaked] : held[leaked][i] = b

\* A half-received message is where its receiver will overwrite or remove it, or where
\* nobody will find it.
PartialInv ==
  \A b \in Batch : \A k \in DOMAIN queries[b] :
    queries[b][k] = Partial =>
      \/ Leaked(b)
      \/ \E p \in Path : /\ held[in_local_queue(p)][1] = b
                         /\ ~make_new[p]
                         /\ k = Len(queries[b])

MessageInv == BatchInv /\ TypeOK /\ PartialInv

\* The two receivers fill different batches, and nobody else has either.
LEMMA LocalBatches ==
  ASSUME BatchInv
  PROVE  /\ \A p \in Path : /\ held[in_local_queue(p)][1] \in Batch
                            /\ Head(held[in_local_queue(p)]) = held[in_local_queue(p)][1]
                            /\ 1 \in DOMAIN held[in_local_queue(p)]
         /\ \A p, q \in Path :
              held[in_local_queue(p)][1] = held[in_local_queue(q)][1] => p = q
         /\ \A p \in Path, s \in Stage, i \in Nat :
              i \in DOMAIN held[s] /\ held[s][i] = held[in_local_queue(p)][1]
                => s = in_local_queue(p)
<1>1. \A p \in Path : /\ in_local_queue(p) \in Stage
                      /\ held[in_local_queue(p)] \in Seq(Batch)
                      /\ Len(held[in_local_queue(p)]) = 1
  BY StageFacts DEF BatchInv, StageShape
<1>2. \A p \in Path : /\ held[in_local_queue(p)][1] \in Batch
                      /\ Head(held[in_local_queue(p)]) = held[in_local_queue(p)][1]
                      /\ 1 \in DOMAIN held[in_local_queue(p)]
  BY <1>1
<1>3. \A p, q \in Path : in_local_queue(p) = in_local_queue(q) => p = q
  BY DEF in_local_queue
<1>4. QED
  BY <1>1, <1>2, <1>3 DEF BatchInv, OneOwner, Owned

\* What is leaked is found nowhere else.
LEMMA LeakedIsNowhere ==
  ASSUME BatchInv, NEW s \in Stage \ {leaked}, NEW i \in DOMAIN held[s]
  PROVE  ~Leaked(held[s][i])
BY StageFacts DEF Leaked, BatchInv, OneOwner, Owned

\* What is leaked stays so.
LEMMA LeakedStays ==
  ASSUME BatchInv, [Next]_vars
  PROVE  \A b : Leaked(b) => Leaked(b)'
<1>0. /\ leaked \in Stage /\ held \in [Stage -> Seq(Batch)] /\ held[leaked] \in Seq(Batch)
      /\ querybatch_pool # leaked /\ query_results # leaked /\ result_jobs # leaked
      /\ query_replies # leaked /\ out_local_queue # leaked
      /\ \A p \in Path : /\ in_local_queue(p) # leaked /\ msg_queue(p) # leaked
                         /\ message_jobs(p) # leaked /\ query_queue(p) # leaked
      /\ \A p \in Path, j \in DbJob : db_queue(p, j) # leaked
  BY StageFacts DEF BatchInv
<1>1. held'[leaked] = held[leaked] => \A b : Leaked(b) => Leaked(b)'
  BY DEF Leaked
<1>2. ASSUME NEW more \in Seq(Batch), held'[leaked] = held[leaked] \o more
      PROVE  \A b : Leaked(b) => Leaked(b)'
  <2>1. \A i \in DOMAIN held[leaked] :
          i \in DOMAIN held'[leaked] /\ held'[leaked][i] = held[leaked][i]
    <3>1. /\ Len(held[leaked]) \in Nat /\ Len(more) \in Nat
          /\ DOMAIN held[leaked] = 1..Len(held[leaked])
          /\ DOMAIN (held[leaked] \o more) = 1..(Len(held[leaked]) + Len(more))
          /\ \A i \in 1..Len(held[leaked]) : (held[leaked] \o more)[i] = held[leaked][i]
      BY <1>0, <1>2
    <3>2. QED  BY <3>1, <1>2
  <2>2. QED  BY <2>1 DEF Leaked
<1>3. ASSUME NEW p \in Path, ReceiverNext(p) PROVE held'[leaked] = held[leaked]
  BY <1>0, <1>3 DEF ReceiverNext, Transfer, NoTransfer, Receive, ReceiveBad, NoMessage,
                    PollError
<1>4. ASSUME NEW p \in Path, Restart(p)
      PROVE  \E more \in Seq(Batch) : held'[leaked] = held[leaked] \o more
  <2>1. Private(p) \in Seq(Batch)
    BY <1>0, StageFacts DEF Private
  <2>2. held'[leaked] = held[leaked] \o Private(p)
    <3>1. Forgotten(p) \in [Stage -> Seq(Batch)]
          /\ Forgotten(p)[leaked] = held[leaked] \o Private(p)
      BY <1>0, <2>1 DEF Forgotten
    <3>2. \A s \in Stage \ {querybatch_pool, in_local_queue(p), out_local_queue} :
            held'[s] = Forgotten(p)[s]
      BY <1>4, <3>1 DEF Restart
    <3>3. QED  BY <1>0, <3>1, <3>2
  <2>3. QED  BY <2>1, <2>2
<1>5. CASE SenderNext
  <2>1. held'[leaked] = held[leaked]
    BY <1>0, <1>5 DEF SenderNext, SendReply, PeerNotReady, FetchReplies, NoReplies
  <2>2. QED  BY <1>1, <2>1
<1>6. ASSUME NEW from \in Stage, from # leaked, NEW i \in DOMAIN held[from],
             MoveOne(from, i, leaked)
      PROVE  \E more \in Seq(Batch) : held'[leaked] = held[leaked] \o more
  <2>1. held[from][i] \in Batch /\ <<held[from][i]>> \in Seq(Batch)
    BY <1>0
  <2>2. held'[leaked] = Append(held[leaked], held[from][i])
    BY <1>0, <1>6 DEF MoveOne
  <2>3. Append(held[leaked], held[from][i]) = held[leaked] \o <<held[from][i]>>
    BY <1>0, <2>1
  <2>4. QED  BY <2>1, <2>2, <2>3
<1>7. CASE WorkerNext
  <2>1. CASE (\E p \in Path : MessageFail(p)) \/ ResultJobFail
    BY <2>1, <1>0, <1>2, <1>6, StageFacts DEF MessageFail, ResultJobFail
  <2>2. CASE \/ \E p \in Path : DistributeMessages(p) \/ MessageJob(p)
             \/ DistributeResults \/ ResultJob
    <3>1. held'[leaked] = held[leaked]
      BY <2>2, <1>0 DEF DistributeMessages, MessageJob, NextTool, DistributeResults,
                        ResultJob, MoveAll, MoveOne
    <3>2. QED  BY <1>1, <3>1
  <2>3. QED  BY <1>7, <2>1, <2>2 DEF WorkerNext
<1>8. CASE DatabaseNext
  <2>1. CASE \E j \in DbJob : DatabaseFail(j)
    <3>1. PICK j \in DbJob : DatabaseFail(j)
      BY <2>1
    <3> DEFINE rdb == db_queue("read", j)
               wdb == db_queue("write", j)
    <3>2. /\ rdb \in Stage /\ wdb \in Stage /\ rdb # leaked /\ wdb # leaked
          /\ held[rdb] \in Seq(Batch) /\ held[wdb] \in Seq(Batch)
      BY <1>0, StageFacts DEF Path
    <3>3. held' = [held EXCEPT ![rdb] = <<>>, ![wdb] = <<>>,
                               ![leaked] = (held[leaked] \o held[rdb]) \o held[wdb]]
      BY <3>1 DEF DatabaseFail
    <3> HIDE DEF rdb, wdb
    <3>4. held'[leaked] = (held[leaked] \o held[rdb]) \o held[wdb]
      BY <1>0, <3>2, <3>3
    <3>5. ASSUME NEW x \in Seq(Batch), NEW y \in Seq(Batch), NEW z \in Seq(Batch)
          PROVE  (x \o y) \o z = x \o (y \o z) /\ y \o z \in Seq(Batch)
      BY ConcatAssociative
    <3>6. held'[leaked] = held[leaked] \o (held[rdb] \o held[wdb])
          /\ held[rdb] \o held[wdb] \in Seq(Batch)
      BY <1>0, <3>2, <3>4, <3>5
    <3> DEFINE more == held[rdb] \o held[wdb]
    <3> HIDE DEF more
    <3>7. more \in Seq(Batch) /\ held'[leaked] = held[leaked] \o more
      BY <3>6 DEF more
    <3>8. QED  BY <1>2, <3>7
  <2>2. CASE \E j \in DbJob : DatabaseDistribute(j) \/ DatabaseReads(j) \/ DatabaseWrites(j)
    <3>1. held'[leaked] = held[leaked]
      BY <2>2, <1>0 DEF DatabaseDistribute, DatabaseReads, DatabaseWrites, DatabasePart,
                        HandOn, Path
    <3>2. QED  BY <1>1, <3>1
  <2>3. QED  BY <1>8, <2>1, <2>2 DEF DatabaseNext
<1>9. CASE UNCHANGED vars
  BY <1>9, <1>1 DEF vars
<1>10. QED
  BY <1>1, <1>2, <1>3, <1>4, <1>5, <1>7, <1>8, <1>9 DEF Next

\* A message that is not being received is complete, or nobody has it.
LEMMA PartialStaysHome == BatchInv /\ PartialInv /\ queries \in [Batch -> Seq(Entry)]
                            => NoPartialDownstream
<1> SUFFICES ASSUME BatchInv, PartialInv, queries \in [Batch -> Seq(Entry)],
                    NEW s \in Stage \ ({in_local_queue(p) : p \in Path} \cup {leaked}),
                    Partial \in QueriesIn(s)
             PROVE  FALSE
  BY DEF NoPartialDownstream
<1>0. PICK b \in ToSet(held[s]) : Partial \in ToSet(queries[b])
  BY DEF QueriesIn
<1>1. PICK i \in DOMAIN held[s] : Partial \in ToSet(queries[held[s][i]])
  <2>1. PICK i \in DOMAIN held[s] : held[s][i] = b
    BY DEF ToSet
  <2>2. QED  BY <1>0, <2>1
<1>2. PICK k \in DOMAIN queries[held[s][i]] : queries[held[s][i]][k] = Partial
  BY <1>1 DEF ToSet
<1>3. held[s] \in Seq(Batch) /\ held[s][i] \in Batch /\ i \in Nat
  BY <1>1 DEF BatchInv
<1>4. PICK p \in Path : held[in_local_queue(p)][1] = held[s][i]
  BY <1>2, <1>3, LeakedIsNowhere DEF PartialInv
<1>5. QED  BY <1>1, <1>3, <1>4, LocalBatches

\* What a receiver leaves in its batch once it has dropped the slot of a failed
\* receive is complete, and where it was.
LEMMA CompleteEntriesFacts ==
  ASSUME MessageInv, NEW p \in Path,
         NEW b, b = held[in_local_queue(p)][1],
         NEW kept, kept = IF make_new[p] THEN queries[b] ELSE Front(queries[b])
  PROVE  /\ kept \in Seq(Entry)
         /\ \A k \in DOMAIN kept : kept[k] # Partial
         /\ \A k \in DOMAIN kept : k \in DOMAIN queries[b] /\ kept[k] = queries[b][k]
<1>1. b \in Batch /\ queries[b] \in Seq(Entry)
  BY LocalBatches DEF MessageInv, TypeOK
<1>2. \A k \in DOMAIN queries[b] :
        queries[b][k] = Partial => ~make_new[p] /\ k = Len(queries[b])
  <2>1. ~Leaked(b)
    BY LocalBatches, LeakedIsNowhere, StageFacts DEF MessageInv
  <2>2. QED  BY <1>1, <2>1, LocalBatches DEF MessageInv, PartialInv
<1>3. CASE make_new[p]
  BY <1>1, <1>2, <1>3
<1>4. CASE ~make_new[p] /\ queries[b] # <<>>
  <2>1. /\ kept \in Seq(Entry) /\ Len(kept) = Len(queries[b]) - 1
        /\ \A k \in 1..(Len(queries[b]) - 1) : kept[k] = queries[b][k]
    BY <1>1, <1>4, FrontProperties
  <2>2. QED  BY <1>1, <1>2, <2>1
<1>5. CASE ~make_new[p] /\ queries[b] = <<>>
  <2>1. kept = SubSeq(<<>>, 1, 0 - 1)
    BY <1>5 DEF Front
  <2> DEFINE n == 0 - 1
             none == SubSeq(<<>>, 1, n)
  <2>0. <<>> \in Seq(Entry) /\ 1 \in Int /\ n \in Int /\ ~(1 <= n)
    OBVIOUS
  <2> HIDE DEF n
  <2>4. none \in Seq(Entry) /\ Len(none) = IF 1 <= n THEN n - 1 + 1 ELSE 0
    <3>1. \A k \in 1..n : <<>>[k] \in Entry
      BY <2>0
    <3>2. QED  BY <2>0, <3>1, SubSeqProperties
  <2> HIDE DEF none
  <2>2. kept \in Seq(Entry) /\ Len(kept) = 0
    BY <2>0, <2>1, <2>4 DEF none, n
  <2>3. QED  BY <2>2, EmptySeq
<1>6. QED  BY <1>3, <1>4, <1>5

\* Steps that touch neither a batch's messages nor a receiver or its batch.
LEMMA QuietMessages ==
  ASSUME MessageInv, [Next]_vars, UNCHANGED <<queries, make_new>>,
         \A p \in Path : held'[in_local_queue(p)] = held[in_local_queue(p)]
  PROVE  PartialInv'
BY LeakedStays DEF MessageInv, PartialInv

\* A receiver hands on complete messages only.
LEMMA TransferMessages ==
  ASSUME MessageInv, [Next]_vars, NEW p \in Path, Transfer(p)
  PROVE  /\ queries' \in [Batch -> Seq(Entry)]
         /\ make_new' \in [Path -> BOOLEAN]
         /\ PartialInv'
<1> DEFINE b == held[in_local_queue(p)][1]
           kept == IF make_new[p] THEN queries[b] ELSE Front(queries[b])
<1>1. b \in Batch /\ Head(held[in_local_queue(p)]) = b
  BY LocalBatches DEF MessageInv
<1>2. kept \in Seq(Entry) /\ \A k \in DOMAIN kept : kept[k] # Partial
  BY CompleteEntriesFacts
<1> HIDE DEF kept
<1>3. queries' = [queries EXCEPT ![b] = kept]
      /\ make_new' = [make_new EXCEPT ![p] = TRUE]
  BY <1>1 DEF Transfer, CompleteEntries, kept
<1>4. queries' \in [Batch -> Seq(Entry)] /\ make_new' \in [Path -> BOOLEAN]
      /\ queries'[b] = kept
      /\ \A c \in Batch \ {b} : queries'[c] = queries[c]
      /\ \A q \in Path \ {p} : make_new'[q] = make_new[q]
  BY <1>1, <1>2, <1>3 DEF MessageInv, TypeOK
<1>5. \A q \in Path \ {p} : held'[in_local_queue(q)] = held[in_local_queue(q)]
  <2>1. \A s \in Stage \ {querybatch_pool, in_local_queue(p), msg_queue(p)} :
          held'[s] = held[s]
    BY DEF Transfer, MessageInv, TypeOK
  <2>2. \A q \in Path \ {p} : in_local_queue(q) # in_local_queue(p)
    BY DEF in_local_queue
  <2>3. QED  BY <2>1, <2>2, StageFacts
<1>6. PartialInv'
  <2> SUFFICES ASSUME NEW c \in Batch, NEW k \in DOMAIN queries'[c],
                      queries'[c][k] = Partial
               PROVE  \/ Leaked(c)'
                      \/ \E q \in Path : /\ held'[in_local_queue(q)][1] = c
                                         /\ ~make_new'[q]
                                         /\ k = Len(queries'[c])
    BY DEF PartialInv
  <2>0. SUFFICES ASSUME ~Leaked(c)' PROVE \E q \in Path :
                                           /\ held'[in_local_queue(q)][1] = c
                                           /\ ~make_new'[q]
                                           /\ k = Len(queries'[c])
    OBVIOUS
  <2>a. ~Leaked(c)
    BY <2>0, LeakedStays DEF MessageInv
  <2>1. c # b
    BY <1>2, <1>4
  <2>2. PICK q \in Path : held[in_local_queue(q)][1] = c /\ ~make_new[q]
                          /\ k = Len(queries[c])
    BY <1>4, <2>a, <2>1 DEF MessageInv, PartialInv
  <2>3. q # p
    BY <2>1, <2>2
  <2>4. QED  BY <1>4, <1>5, <2>1, <2>2, <2>3
<1>7. QED  BY <1>4, <1>6

\* A receive puts a message, complete or not, behind complete ones.
LEMMA ReceiveMessages ==
  ASSUME MessageInv, NEW p \in Path, NEW e \in Entry, IntoSlot(p, e),
         make_new' = [make_new EXCEPT ![p] = (e # Partial)], held' = held
  PROVE  /\ queries' \in [Batch -> Seq(Entry)]
         /\ make_new' \in [Path -> BOOLEAN]
         /\ PartialInv'
<1> DEFINE b == held[in_local_queue(p)][1]
           kept == IF make_new[p] THEN queries[b] ELSE Front(queries[b])
<1>1. b \in Batch /\ Head(held[in_local_queue(p)]) = b
  BY LocalBatches DEF MessageInv
<1>2. kept \in Seq(Entry) /\ \A k \in DOMAIN kept : kept[k] # Partial
  BY CompleteEntriesFacts
<1> HIDE DEF kept
<1>3. queries' = [queries EXCEPT ![b] = Append(kept, e)]
  BY <1>1 DEF IntoSlot, CompleteEntries, kept
<1>4. /\ Append(kept, e) \in Seq(Entry)
      /\ Len(Append(kept, e)) = Len(kept) + 1
      /\ \A k \in 1..Len(kept) : Append(kept, e)[k] = kept[k]
      /\ Append(kept, e)[Len(kept) + 1] = e
      /\ Len(kept) \in Nat
  BY <1>2, AppendProperties
<1>5. queries' \in [Batch -> Seq(Entry)] /\ make_new' \in [Path -> BOOLEAN]
      /\ queries'[b] = Append(kept, e)
      /\ \A c \in Batch \ {b} : queries'[c] = queries[c]
      /\ \A q \in Path \ {p} : make_new'[q] = make_new[q]
      /\ make_new'[p] = (e # Partial)
  BY <1>1, <1>3, <1>4 DEF MessageInv, TypeOK
<1>6. ASSUME NEW c \in Batch, NEW k \in DOMAIN queries'[c], queries'[c][k] = Partial
      PROVE  \/ Leaked(c)
             \/ \E q \in Path : /\ held[in_local_queue(q)][1] = c
                                /\ ~make_new'[q]
                                /\ k = Len(queries'[c])
  <2>1. CASE c = b
    <3>1. k \in 1..(Len(kept) + 1)
      BY <1>4, <1>5, <1>6, <2>1, LenProperties
    <3>2. k = Len(kept) + 1 /\ e = Partial
      BY <1>2, <1>4, <1>5, <1>6, <2>1, <3>1
    <3>3. QED  BY <1>4, <1>5, <2>1, <3>2
  <2>2. CASE c # b /\ ~Leaked(c)
    <3>1. PICK q \in Path : held[in_local_queue(q)][1] = c /\ ~make_new[q]
                            /\ k = Len(queries[c])
      BY <1>5, <1>6, <2>2 DEF MessageInv, PartialInv
    <3>2. QED  BY <1>5, <2>2, <3>1
  <2>3. QED  BY <2>1, <2>2
<1>7. QED  BY <1>5, <1>6 DEF PartialInv, Leaked

\* A restarted receiver forgets what it has received by half, and nobody finds it.
LEMMA RestartMessages ==
  ASSUME MessageInv, [Next]_vars, NEW p \in Path, Restart(p)
  PROVE  make_new' \in [Path -> BOOLEAN] /\ PartialInv'
<1>0. /\ held \in [Stage -> Seq(Batch)] /\ leaked \in Stage /\ in_local_queue(p) \in Stage
      /\ leaked \notin {querybatch_pool, in_local_queue(p), out_local_queue}
  BY StageFacts DEF MessageInv, TypeOK
<1>1. /\ queries' = queries
      /\ make_new' \in [Path -> BOOLEAN]
      /\ \A q \in Path \ {p} : make_new'[q] = make_new[q]
  BY DEF Restart, MessageInv, TypeOK
<1>2. /\ Private(p) \in Seq(Batch) /\ 1 \in DOMAIN Private(p)
      /\ Private(p)[1] = held[in_local_queue(p)][1]
  <2>1. /\ held[in_local_queue(p)] \in Seq(Batch) /\ Len(held[in_local_queue(p)]) = 1
        /\ held[out_local_queue] \in Seq(Batch)
    BY StageFacts DEF MessageInv, BatchInv, StageShape
  <2>2. ASSUME NEW x \in Seq(Batch), NEW y \in Seq(Batch), Len(x) = 1
        PROVE  x \o y \in Seq(Batch) /\ 1 \in DOMAIN (x \o y) /\ (x \o y)[1] = x[1]
    <3>1. /\ x \o y \in Seq(Batch)
          /\ Len(x \o y) = Len(x) + Len(y)
          /\ \A i \in 1..(Len(x) + Len(y)) :
               (x \o y)[i] = IF i <= Len(x) THEN x[i] ELSE y[i - Len(x)]
      BY ConcatProperties
    <3>2. Len(y) \in Nat /\ DOMAIN (x \o y) = 1..Len(x \o y)
      BY <3>1, LenProperties
    <3>3. QED  BY <2>2, <3>1, <3>2
  <2>3. <<>> \in Seq(Batch)
    OBVIOUS
  <2>4. QED  BY <2>1, <2>2, <2>3 DEF Private
<1>3. /\ held'[leaked] = held[leaked] \o Private(p)
      /\ \A q \in Path \ {p} : held'[in_local_queue(q)] = held[in_local_queue(q)]
  <2>1. /\ Forgotten(p) \in [Stage -> Seq(Batch)]
        /\ Forgotten(p)[leaked] = held[leaked] \o Private(p)
        /\ \A s \in Stage \ {leaked} : Forgotten(p)[s] = held[s]
    BY <1>0, <1>2 DEF Forgotten
  <2>2. \A s \in Stage \ {querybatch_pool, in_local_queue(p), out_local_queue} :
          held'[s] = Forgotten(p)[s]
    BY <2>1 DEF Restart
  <2>3. \A q \in Path \ {p} : in_local_queue(q) # in_local_queue(p)
    BY DEF in_local_queue
  <2>4. QED  BY <1>0, <2>1, <2>2, <2>3, StageFacts
<1>4. ASSUME NEW b, b = held[in_local_queue(p)][1]
      PROVE  Leaked(b)'
  <2> DEFINE x == held[leaked]
             y == Private(p)
  <2>1. /\ x \in Seq(Batch) /\ y \in Seq(Batch) /\ 1 \in DOMAIN y /\ y[1] = b
        /\ held'[leaked] = x \o y
    BY <1>0, <1>2, <1>3, <1>4
  <2> HIDE DEF x, y
  <2>2. /\ Len(x) \in Nat /\ Len(y) \in Nat /\ 1 <= Len(y)
        /\ Len(x \o y) = Len(x) + Len(y) /\ x \o y \in Seq(Batch)
        /\ (x \o y)[Len(x) + 1] =
             IF Len(x) + 1 <= Len(x) THEN x[Len(x) + 1] ELSE y[Len(x) + 1 - Len(x)]
    BY <2>1, ConcatProperties, LenProperties
  <2>3. Len(x) + 1 \in DOMAIN (x \o y) /\ (x \o y)[Len(x) + 1] = b
    BY <2>1, <2>2, LenProperties
  <2>4. QED  BY <2>1, <2>3 DEF Leaked
<1>5. PartialInv'
  <2> SUFFICES ASSUME NEW c \in Batch, NEW k \in DOMAIN queries[c],
                      queries[c][k] = Partial, ~Leaked(c)'
               PROVE  \E q \in Path : /\ held'[in_local_queue(q)][1] = c
                                      /\ ~make_new'[q]
                                      /\ k = Len(queries[c])
    BY <1>1 DEF PartialInv
  <2>1. ~Leaked(c) /\ c # held[in_local_queue(p)][1]
    BY <1>4, LeakedStays DEF MessageInv
  <2>2. PICK q \in Path : /\ held[in_local_queue(q)][1] = c /\ ~make_new[q]
                          /\ k = Len(queries[c])
    BY <2>1 DEF MessageInv, PartialInv
  <2>3. QED  BY <1>1, <1>3, <2>1, <2>2
<1>6. QED  BY <1>1, <1>5

\* Every query that a stage downstream of the receivers has is a client's.
LEMMA QueriesAreQueries ==
  ASSUME MessageInv,
         NEW s \in Stage \ ({in_local_queue(p) : p \in Path} \cup {leaked})
  PROVE  QueriesIn(s) \subseteq Query
<1>1. NoPartialDownstream
  BY PartialStaysHome DEF MessageInv, TypeOK
<1>2. QueriesIn(s) \subseteq Entry
  <2> SUFFICES ASSUME NEW b \in ToSet(held[s])
               PROVE  ToSet(queries[b]) \subseteq Entry
    BY DEF QueriesIn
  <2>1. b \in Batch
    BY DEF MessageInv, TypeOK, ToSet
  <2>2. QED  BY <2>1 DEF MessageInv, TypeOK, ToSet
<1>3. QED  BY <1>1, <1>2 DEF NoPartialDownstream, Entry

\* A query a reply is sent for is a client's.
LEMMA ReplyIsToAQuery ==
  ASSUME MessageInv, Answering
  PROVE  queries[Head(held[out_local_queue])][out_i + 1] \in Query
<1> DEFINE b == held[out_local_queue][1]
<1>1. held[out_local_queue] \in Seq(Batch) /\ held[out_local_queue] # <<>>
      /\ out_local_queue \in Stage \ ({in_local_queue(p) : p \in Path} \cup {leaked})
  BY StageFacts DEF MessageInv, TypeOK, Answering
<1>2. Head(held[out_local_queue]) = b /\ b \in Batch /\ 1 \in DOMAIN held[out_local_queue]
  BY <1>1, EmptySeq
<1>3. out_i + 1 \in DOMAIN queries[b]
  BY <1>2 DEF Answering, MessageInv, TypeOK
<1>4. b \in ToSet(held[out_local_queue]) /\ queries[b][out_i + 1] \in ToSet(queries[b])
  BY <1>2, <1>3 DEF ToSet
<1>5. queries[b][out_i + 1] \in QueriesIn(out_local_queue)
  BY <1>4 DEF QueriesIn
<1>6. QED  BY <1>1, <1>2, <1>5, QueriesAreQueries

\* The part of TypeOK that is not about batches and receivers.
RestTypeOK ==
  /\ pc \in [Path -> {"transfer", "receive", "reply"}]
  /\ running \in [Path -> BOOLEAN]
  /\ out_i \in Nat
  /\ arrived \subseteq Query
  /\ done \subseteq Query
  /\ sent \in [Query -> Nat]
  /\ dropped \subseteq Query
  /\ faults \in 0..MaxFaults

\* Every step keeps the types of what is neither a message nor a batch.
LEMMA RestInductive ==
  ASSUME MessageInv, [Next]_vars
  PROVE  RestTypeOK'
<1> USE DEF RestTypeOK
<1>0. RestTypeOK
  BY DEF MessageInv, TypeOK
<1>1. Fault => faults' \in 0..MaxFaults
  BY <1>0, ConstantsAssumption DEF Fault
<1>2. ASSUME NEW p \in Path, ReceiverNext(p) PROVE RestTypeOK'
  <2>1. AfterReceive(p) \in {"transfer", "receive", "reply"}
    BY DEF AfterReceive
  <2>2. CASE Transfer(p)
    BY <1>0, <2>2 DEF Transfer, clients
  <2>3. CASE NoTransfer(p)
    BY <1>0, <2>3 DEF NoTransfer, clients
  <2>4. CASE \E q \in Query : Receive(p, q)
    BY <1>0, <2>1, <2>4 DEF Receive, clients
  <2>5. CASE ReceiveBad(p)
    BY <1>0, <1>1, <2>1, <2>5 DEF ReceiveBad, MayStop, clients
  <2>6. CASE NoMessage(p)
    BY <1>0, <2>1, <2>6 DEF NoMessage, clients
  <2>7. CASE PollError(p)
    BY <1>0, <1>1, <2>7 DEF PollError, MayStop, clients
  <2>8. QED
    BY <1>2, <2>2, <2>3, <2>4, <2>5, <2>6, <2>7 DEF ReceiverNext
<1>3. CASE SenderNext
  <2>1. CASE SendReply
    <3> DEFINE q == queries[Head(held[out_local_queue])][out_i + 1]
    <3>1. q \in Query
      BY <2>1, ReplyIsToAQuery DEF SendReply
    <3>2. sent[q] \in Nat
      BY <1>0, <3>1
    <3>3. /\ pc' \in [Path -> {"transfer", "receive", "reply"}]
          /\ out_i' \in Nat /\ UNCHANGED <<running, arrived, done>>
      <4>1. pc' = [pc EXCEPT !["read"] = "transfer"] /\ out_i' = out_i + 1
            /\ UNCHANGED <<running, arrived, done>>
        BY <2>1 DEF SendReply, NextReply, ReplyStepEnds
      <4> HIDE DEF q
      <4>2. out_i + 1 \in Nat
        BY <1>0
      <4>3. [pc EXCEPT !["read"] = "transfer"] \in [Path -> {"transfer", "receive", "reply"}]
        BY <1>0
      <4>4. QED  BY <4>1, <4>2, <4>3
    <3>4. \/ sent' = [sent EXCEPT ![q] = sent[q] + 1] /\ UNCHANGED <<dropped, faults>>
          \/ Fault /\ dropped' = dropped \cup {q} /\ UNCHANGED sent
      BY <2>1 DEF SendReply
    <3> HIDE DEF q
    <3>5. QED
      BY <1>0, <1>1, <3>1, <3>2, <3>3, <3>4
  <2>2. CASE PeerNotReady
    BY <1>0, <2>2 DEF PeerNotReady, ReplyStepEnds, clients
  <2>3. CASE FetchReplies
    BY <1>0, <2>3 DEF FetchReplies, StartOver, ReplyStepEnds, clients
  <2>4. CASE NoReplies
    BY <1>0, <2>4 DEF NoReplies, ReplyStepEnds, clients
  <2>5. QED
    BY <1>3, <2>1, <2>2, <2>3, <2>4 DEF SenderNext
<1>4. CASE WorkerNext
  BY <1>0, <1>1, <1>4
     DEF WorkerNext, DistributeMessages, MessageJob, MessageFail,
         DistributeResults, ResultJob, ResultJobFail, receiver, clients
<1>5. ASSUME NEW j \in DbJob, DatabaseDistribute(j) \/ DatabaseFail(j)
      PROVE  RestTypeOK'
  BY <1>0, <1>1, <1>5 DEF DatabaseDistribute, DatabaseFail, receiver, clients
<1>6. ASSUME NEW j \in DbJob, DatabaseReads(j) \/ DatabaseWrites(j)
      PROVE  RestTypeOK'
  <2>1. PICK p \in Path, next \in {"writes", "idle"} : DatabasePart(p, j, next)
    BY <1>6 DEF DatabaseReads, DatabaseWrites, Path
  <2>2. QueriesIn(db_queue(p, j)) \subseteq Query
    BY StageFacts, QueriesAreQueries
  <2>3. QED
    BY <1>0, <2>1, <2>2 DEF DatabasePart, receiver, clients
<1>7. ASSUME NEW p \in Path, Restart(p) PROVE RestTypeOK'
  BY <1>0, <1>7 DEF Restart, clients
<1>8. CASE UNCHANGED vars
  BY <1>0, <1>8 DEF vars
<1>9. QED
  BY <1>2, <1>3, <1>4, <1>5, <1>6, <1>7, <1>8 DEF Next, DatabaseNext

\* A stage the receivers do not fill can change without touching their batches.
LEMMA LocalsKept ==
  ASSUME NEW from \in Stage, NEW to \in Stage, Plain(from), Plain(to),
         held \in [Stage -> Seq(Batch)],
         \E f, t : held' = [held EXCEPT ![from] = f, ![to] = t]
  PROVE  \A p \in Path : held'[in_local_queue(p)] = held[in_local_queue(p)]
<1>1. \A p \in Path : in_local_queue(p) \in Stage \ {from, to}
  BY StageFacts DEF Plain
<1>2. QED  BY <1>1

\* The part of the invariant that is about messages.
Messages ==
  /\ queries \in [Batch -> Seq(Entry)]
  /\ make_new \in [Path -> BOOLEAN]
  /\ PartialInv

\* Every step leaves half-received messages where make_new says they are.
LEMMA PartialInductive ==
  ASSUME MessageInv, [Next]_vars
  PROVE  Messages'
<1> DEFINE Quiet == UNCHANGED <<queries, make_new>>
                    /\ \A p \in Path : held'[in_local_queue(p)] = held[in_local_queue(p)]
<1>0. held \in [Stage -> Seq(Batch)]
      /\ queries \in [Batch -> Seq(Entry)] /\ make_new \in [Path -> BOOLEAN]
  BY DEF MessageInv, TypeOK
<1>1. Quiet => Messages'
  BY <1>0, QuietMessages DEF Messages
<1>2. ASSUME NEW p \in Path, ReceiverNext(p) PROVE Messages'
  <2>1. CASE Transfer(p)
    BY <2>1, TransferMessages DEF Messages
  <2>2. CASE \E q \in Query : Receive(p, q)
    <3>1. PICK q \in Query : Receive(p, q)
      BY <2>2
    <3>2. q \in Entry /\ (q # Partial) = TRUE
      BY ConstantsAssumption DEF Query, Entry
    <3>3. IntoSlot(p, q) /\ held' = held /\ make_new' = [make_new EXCEPT ![p] = TRUE]
      BY <3>1 DEF Receive
    <3>4. QED  BY <3>2, <3>3, ReceiveMessages DEF Messages
  <2>3. CASE ReceiveBad(p)
    <3>1. Partial \in Entry /\ (Partial # Partial) = FALSE
      BY DEF Entry
    <3>2. IntoSlot(p, Partial) /\ held' = held
          /\ make_new' = [make_new EXCEPT ![p] = FALSE]
      BY <2>3 DEF ReceiveBad
    <3>3. QED  BY <3>1, <3>2, ReceiveMessages DEF Messages
  <2>4. CASE NoTransfer(p) \/ NoMessage(p) \/ PollError(p)
    BY <2>4, <1>1 DEF NoTransfer, NoMessage, PollError
  <2>5. QED
    BY <1>2, <2>1, <2>2, <2>3, <2>4 DEF ReceiverNext
<1>3. CASE SendReply \/ PeerNotReady \/ NoReplies
  BY <1>3, <1>1 DEF SendReply, PeerNotReady, NoReplies
<1>4. CASE FetchReplies
  <2>1. \A p \in Path : held'[in_local_queue(p)] = held[in_local_queue(p)]
    <3>1. \A p \in Path : in_local_queue(p) \in
                 Stage \ {querybatch_pool, out_local_queue, query_replies}
      BY StageFacts
    <3>2. \A s \in Stage \ {querybatch_pool, out_local_queue, query_replies} :
            held'[s] = held[s]
      BY <1>0, <1>4 DEF FetchReplies
    <3>3. QED  BY <3>1, <3>2
  <2>2. make_new' = make_new
        /\ queries' = [b \in Batch |-> IF b \in ToSet(held[out_local_queue])
                                       THEN <<>> ELSE queries[b]]
    BY <1>4 DEF FetchReplies, AnsweredBatch, StartOver
  <2>3. /\ queries' \in [Batch -> Seq(Entry)]
        /\ \A b \in Batch : queries'[b] = queries[b] \/ queries'[b] = <<>>
    BY <1>0, <2>2
  <2>4. PartialInv'
    BY <2>1, <2>2, <2>3, LeakedStays DEF MessageInv, PartialInv
  <2>5. QED  BY <1>0, <2>2, <2>3, <2>4 DEF Messages
<1>5. ASSUME NEW p \in Path, DistributeMessages(p) \/ MessageJob(p) \/ MessageFail(p)
      PROVE  Messages'
  <2>1. /\ Plain(msg_queue(p)) /\ Plain(message_jobs(p)) /\ Plain(query_queue(p))
        /\ Plain(leaked) /\ msg_queue(p) \in Stage /\ message_jobs(p) \in Stage
        /\ query_queue(p) \in Stage /\ leaked \in Stage
    BY StageFacts DEF Plain
  <2>2. Quiet
    BY <1>0, <1>5, <2>1, LocalsKept
       DEF DistributeMessages, MessageJob, NextTool, MessageFail, MoveAll, MoveOne,
           receiver
  <2>3. QED  BY <1>1, <2>2
<1>6. CASE DistributeResults \/ ResultJob \/ ResultJobFail
  <2>1. /\ Plain(query_results) /\ Plain(result_jobs) /\ Plain(query_replies)
        /\ Plain(leaked) /\ query_results \in Stage /\ result_jobs \in Stage
        /\ query_replies \in Stage /\ leaked \in Stage
    BY StageFacts DEF Plain
  <2>2. Quiet
    BY <1>0, <1>6, <2>1, LocalsKept
       DEF DistributeResults, ResultJob, ResultJobFail, MoveAll, MoveOne, receiver
  <2>3. QED  BY <1>1, <2>2
<1>7. CASE DatabaseNext
  <2>1. PICK j \in DbJob : \/ DatabaseDistribute(j) \/ DatabaseFail(j)
                           \/ DatabaseReads(j) \/ DatabaseWrites(j)
    BY <1>7 DEF DatabaseNext
  <2> DEFINE rq  == query_queue("read")
             wq  == query_queue("write")
             rdb == db_queue("read", j)
             wdb == db_queue("write", j)
  <2>2. \E S \in SUBSET {rq, wq, rdb, wdb, query_results, leaked} :
          \A s \in Stage \ S : held'[s] = held[s]
    <3> HIDE DEF rq, wq, rdb, wdb
    <3>1. CASE DatabaseDistribute(j)
      <4>1. held' = [held EXCEPT ![wdb] = held[wq], ![wq] = <<>>,
                                 ![rdb] = held[rq], ![rq] = <<>>]
        BY <3>1 DEF DatabaseDistribute, rq, wq, rdb, wdb
      <4>2. \A s \in Stage \ {rq, wq, rdb, wdb} : held'[s] = held[s]
        BY <1>0, <4>1
      <4>3. QED  BY <4>2
    <3>2. CASE DatabaseFail(j)
      <4>1. \E x : held' = [held EXCEPT ![rdb] = <<>>, ![wdb] = <<>>, ![leaked] = x]
        BY <3>2 DEF DatabaseFail, rdb, wdb
      <4>2. \A s \in Stage \ {rdb, wdb, leaked} : held'[s] = held[s]
        BY <1>0, <4>1
      <4>3. QED  BY <4>2
    <3>3. CASE DatabaseReads(j) \/ DatabaseWrites(j)
      <4>1. \E x, y \in {rdb, wdb} :
              held' = [held EXCEPT ![y] = <<>>,
                                   ![query_results] = held[query_results] \o held[y]]
        BY <3>3 DEF DatabaseReads, DatabaseWrites, DatabasePart, HandOn, rdb, wdb
      <4>2. \A s \in Stage \ {rdb, wdb, query_results} : held'[s] = held[s]
        BY <1>0, <4>1
      <4>3. QED  BY <4>2
    <3>4. QED  BY <2>1, <3>1, <3>2, <3>3
  <2>3. \A p \in Path : in_local_queue(p) \in
              Stage \ {rq, wq, rdb, wdb, query_results, leaked}
    BY StageFacts DEF Path
  <2>4. UNCHANGED <<queries, make_new>>
    BY <2>1 DEF DatabaseReads, DatabaseWrites, DatabasePart, DatabaseDistribute,
                DatabaseFail, receiver
  <2>5. \A p \in Path : held'[in_local_queue(p)] = held[in_local_queue(p)]
    <3> HIDE DEF rq, wq, rdb, wdb
    <3> QED BY <2>2, <2>3
  <2>6. QED  BY <1>1, <2>4, <2>5
<1>8. CASE UNCHANGED vars
  BY <1>8, <1>1 DEF vars
<1> HIDE DEF Quiet
<1>9. CASE SenderNext
  BY <1>3, <1>4, <1>9 DEF SenderNext
<1>10. CASE WorkerNext
  BY <1>5, <1>6, <1>10 DEF WorkerNext
<1>11. CASE \E p \in Path : ReceiverNext(p) \/ Restart(p)
  <2>1. ASSUME NEW p \in Path, Restart(p) PROVE Messages'
    <3>1. queries' = queries
      BY <2>1 DEF Restart
    <3>2. QED  BY <1>0, <2>1, <3>1, RestartMessages DEF Messages
  <2>2. QED  BY <1>2, <1>11, <2>1
<1>12. QED  BY <1>7, <1>8, <1>9, <1>10, <1>11 DEF Next

\* Every step keeps the whole of the invariant.
LEMMA MessagesInductive == MessageInv /\ [Next]_vars => MessageInv'
<1> SUFFICES ASSUME MessageInv, [Next]_vars PROVE MessageInv'
  OBVIOUS
<1>1. BatchInv'
  BY BatchesInductive DEF MessageInv
<1>2. RestTypeOK'
  BY RestInductive
<1>3. QED
  BY <1>1, <1>2, PartialInductive DEF Messages, MessageInv, TypeOK, RestTypeOK, BatchInv

\* Nothing is received yet.
LEMMA MessagesInitially == Init => MessageInv
<1> SUFFICES ASSUME Init PROVE MessageInv
  OBVIOUS
<1>1. BatchInv
  BY BatchesInitially
<1>2. TypeOK
  BY <1>1, ConstantsAssumption DEF BatchInv, Init, TypeOK
<1>3. PartialInv
  BY DEF Init, PartialInv
<1>4. QED
  BY <1>1, <1>2, <1>3 DEF MessageInv

\* Every variable keeps its type in every behaviour.
THEOREM TypesAreKept == Spec => []TypeOK
<1>1. MessageInv => TypeOK
  BY DEF MessageInv
<1>2. QED
  BY <1>1, MessagesInductive, MessagesInitially, PTL DEF Spec

\* No tool after the receivers ever sees a message that was not received in
\* full, however receives fail and whenever the batch is handed on.
THEOREM NoPartialLeaves == Spec => []NoPartialDownstream
<1>1. MessageInv => NoPartialDownstream
  BY PartialStaysHome DEF MessageInv, TypeOK
<1>2. QED
  BY <1>1, MessagesInductive, MessagesInitially, PTL DEF Spec
=============================================================================
