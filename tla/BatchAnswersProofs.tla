-------------------------- MODULE BatchAnswersProofs --------------------------
(***************************************************************************)
(* A batch of queries is answered as it should be.                         *)
(*                                                                         *)
(* Of reads: the ids of a round are aligned with the queries it begins     *)
(* with, so a result goes to the query it is for (ReadInv); and unless a   *)
(* swap crosses a lookup, what count() has found is what operator[] takes  *)
(* (AnswerInv).                                                            *)
(*                                                                         *)
(* Of writes: the rows of a topic are in the order of its queries, an      *)
(* insert that worked returned them as they are, and next_version is the   *)
(* place of the first row that is not of a query before (OrderInv).        *)
(***************************************************************************)
EXTENDS BatchAnswers, SequenceTheorems, TLAPS

-----------------------------------------------------------------------------
(* The read half of a database job.                                        *)

Aligned ==
  phase = "pull" => /\ ids \in Seq(0..N)
                    /\ Len(ids) = N - last_i
                    /\ i <= Len(ids) + 1
                    /\ \A k \in 1..Len(ids) : ids[k] \in {0, last_i + k}

ReadInv == queries \in Seq(Kinds) /\ TypeOK /\ Aligned /\ ResultIsOwn

\* The ids a round begins with are aligned with its queries.
LEMMA IdsAligned ==
  ASSUME queries \in Seq(Kinds), last_i \in 0..N
  PROVE  /\ Ids \in Seq(0..N)
         /\ Len(Ids) = N - last_i
         /\ \A k \in 1..Len(Ids) : Ids[k] \in {0, last_i + k}
<1>1. N \in Nat /\ N - last_i \in Nat
  BY DEF N
<1>2. \A k \in 1..(N - last_i) : last_i + k \in 0..N
  BY <1>1
<1>3. Ids \in [1..(N - last_i) -> 0..N]
  BY <1>1, <1>2 DEF Ids
<1>4. Ids \in Seq(0..N) /\ Len(Ids) = N - last_i
  BY <1>1, <1>3
<1>5. \A k \in 1..(N - last_i) : Ids[k] \in {0, last_i + k}
  BY DEF Ids
<1>6. QED  BY <1>4, <1>5

\* Init gives every query its own place and no result.
LEMMA ReadInitially == Init => ReadInv
<1> SUFFICES ASSUME Init PROVE ReadInv
  OBVIOUS
<1>1. PICK m \in 1..MaxQueries : queries \in [1..m -> Kinds]
  BY DEF Init
<1>2. m \in Nat
  BY <1>1
<1>3. queries \in Seq(Kinds) /\ N = m
  BY <1>1, <1>2 DEF N
<1>4. TypeOK
  BY <1>2, <1>3 DEF Init, TypeOK
<1>5. QED  BY <1>3, <1>4 DEF ReadInv, Init, Aligned, ResultIsOwn

\* Every step keeps results aligned.
LEMMA ReadInductive == ReadInv /\ [Next]_vars => ReadInv'
<1> SUFFICES ASSUME ReadInv, [Next]_vars PROVE ReadInv'
  OBVIOUS
<1> USE DEF ReadInv
<1>0. N \in Nat
  BY DEF N
<1>1. CASE Push
  <2>1. /\ ids' \in Seq(0..N) /\ Len(ids') = N - last_i
        /\ \A k \in 1..Len(ids') : ids'[k] \in {0, last_i + k}
    BY <1>1, IdsAligned DEF Push, TypeOK
  <2>2. UNCHANGED <<queries, last_i, result, err>> /\ i' = 1 /\ phase' = "pull" /\ N' = N
    BY <1>1 DEF Push, N
  <2>3. QED  BY <1>0, <2>1, <2>2 DEF TypeOK, Aligned, ResultIsOwn
<1>2. CASE SkipPull
  <2>1. UNCHANGED <<queries, last_i, ids, phase, result, err>> /\ i' = i + 1 /\ N' = N
        /\ phase = "pull" /\ i <= Len(ids)
    BY <1>2 DEF SkipPull, Pulling, N
  <2>2. QED  BY <1>0, <2>1 DEF TypeOK, Aligned, ResultIsOwn
<1>3. CASE Pull
  <2>1. /\ UNCHANGED <<queries, last_i, ids, phase, err>> /\ i' = i + 1 /\ N' = N
        /\ phase = "pull" /\ i <= Len(ids) /\ ids[i] # 0
        /\ result' = [result EXCEPT ![i + last_i] = ids[i]]
    BY <1>3 DEF Pull, Pulling, Pulled, Retrieves, N
  <2>2. i \in 1..Len(ids) /\ ids[i] = last_i + i /\ last_i + i \in 1..N
    BY <1>0, <2>1 DEF TypeOK, Aligned
  <2>3. result' \in [1..N -> 0..N] /\ \A k \in 1..N : result'[k] \in {0, k}
    BY <1>0, <2>1, <2>2 DEF TypeOK, ResultIsOwn
  <2>4. i' \in 1..(N + 1) /\ i' <= Len(ids) + 1
    BY <1>0, <2>1, <2>2 DEF TypeOK, Aligned
  <2>5. TypeOK'
    BY <1>0, <2>1, <2>3, <2>4 DEF TypeOK
  <2>6. Aligned' /\ ResultIsOwn'
    BY <2>1, <2>3, <2>4 DEF Aligned, ResultIsOwn
  <2>7. QED  BY <2>1, <2>5, <2>6
<1>4. CASE PullFails
  <2>1. /\ UNCHANGED <<queries, ids, i>> /\ N' = N
        /\ phase = "pull" /\ i <= Len(ids) /\ phase' = "push"
        /\ result' = [result EXCEPT ![i + last_i] = 0]
        /\ err' = err \cup {i + last_i} /\ last_i' = last_i + i
    BY <1>4 DEF PullFails, Pulling, Pulled, NextRound, N
  <2>2. i + last_i \in 1..N
    BY <1>0, <2>1 DEF TypeOK, Aligned
  <2>3. QED  BY <1>0, <2>1, <2>2 DEF TypeOK, Aligned, ResultIsOwn
<1>5. CASE Done
  <2>1. UNCHANGED <<queries, last_i, ids, i, result, err>> /\ phase' = "done" /\ N' = N
    BY <1>5 DEF Done, N
  <2>2. QED  BY <1>0, <2>1 DEF TypeOK, Aligned, ResultIsOwn
<1>6. CASE UNCHANGED vars
  BY <1>6 DEF vars, TypeOK, Aligned, ResultIsOwn, N
<1>7. QED  BY <1>1, <1>2, <1>3, <1>4, <1>5, <1>6 DEF Next

\* No read query is ever given the rows of another, for a batch of any length and
\* any sequence of failures and new rounds.
THEOREM ResultsAreOwn == Spec => []ResultIsOwn
<1>1. ReadInv => ResultIsOwn
  BY DEF ReadInv
<1>2. QED  BY <1>1, ReadInitially, ReadInductive, PTL DEF Spec

\* The indices of DatabaseJob's read loops stay within the batch.
THEOREM TypesAreKept == Spec => []TypeOK
<1>1. ReadInv => TypeOK
  BY DEF ReadInv
<1>2. QED  BY <1>1, ReadInitially, ReadInductive, PTL DEF Spec

-----------------------------------------------------------------------------
(* ResultJob's answers to a batch of reads.                                *)

AnswerType == [ok : BOOLEAN, rows : SUBSET Nat]

\* A lookup is one of a query yet to be answered, when all results are there.
Awaited ==
  /\ answers # <<>> \/ looking # {} => phase = "done"
  /\ looking # {} => Len(answers) < N

\* What count() has found is still there, and not empty, unless a swap came between.
StillThere ==
  \A l \in looking : crossed \/ (l.since = swaps /\ l.device \in DOMAIN cached_configs)

AnswerInv == /\ ReadInv /\ AnswerTypeOK /\ answers \in Seq(AnswerType)
             /\ Awaited /\ StillThere /\ CachedAnswerIsWhole

\* Nothing is cached, and nothing answered.
LEMMA AnswersInitially == AnswerInit => AnswerInv
<1> SUFFICES ASSUME AnswerInit PROVE AnswerInv
  OBVIOUS
<1>1. ReadInv
  BY ReadInitially DEF AnswerInit
<1>2. /\ cached_configs = <<>> /\ config_ids = 0 /\ swaps = 0 /\ answers = <<>>
      /\ looking = {} /\ undefined = FALSE /\ crossed = FALSE /\ N \in Nat /\ MaxSwaps \in Nat
  BY <1>1, ReadAnswerAssumption DEF AnswerInit, N, ReadInv
<1>3. DOMAIN cached_configs = {} /\ DOMAIN answers = {} /\ Len(answers) = 0
      /\ answers \in Seq(AnswerType)
  BY <1>2
<1>4. AnswerTypeOK
  <2>1. 0 \in 0..MaxSwaps /\ 0 \in 0..0 /\ 0 <= N
    BY <1>2
  <2>2. TypeOK /\ DOMAIN cached_configs \subseteq Device
    BY <1>1, <1>3 DEF ReadInv
  <2>3. /\ \A d \in DOMAIN cached_configs : cached_configs[d] \subseteq 1..swaps
        /\ \A k \in DOMAIN answers : answers[k] \in AnswerType
    BY <1>3
  <2>4. /\ config_ids \in 0..swaps /\ swaps \in 0..MaxSwaps /\ Len(answers) <= N
        /\ looking \subseteq [device : Device, since : 0..swaps]
        /\ crossed \in BOOLEAN /\ undefined \in BOOLEAN
    BY <1>2, <1>3, <2>1
  <2>5. QED  BY <2>2, <2>3, <2>4 DEF AnswerTypeOK, AnswerType
<1>5. Awaited /\ StillThere /\ CachedAnswerIsWhole
  BY <1>2, <1>3 DEF Awaited, StillThere, CachedAnswerIsWhole
<1>6. QED  BY <1>1, <1>3, <1>4, <1>5 DEF AnswerInv

\* Another query is answered.
LEMMA AnswerAdded ==
  ASSUME answers \in Seq(AnswerType), Len(answers) < N, N \in Nat, NEW a \in AnswerType,
         Answer(a), queries' = queries
  PROVE  /\ answers' \in Seq(AnswerType) /\ Len(answers') = Len(answers) + 1
         /\ Len(answers') <= N /\ answers' # <<>>
         /\ \A k \in DOMAIN answers' : answers'[k] \in AnswerType
         /\ \A k \in DOMAIN answers' : (k \in DOMAIN answers /\ answers'[k] = answers[k])
                                       \/ (k = K /\ answers'[k] = a)
<1>1. answers' = Append(answers, a)
  BY DEF Answer
<1>2. /\ answers' \in Seq(AnswerType) /\ Len(answers') = Len(answers) + 1
      /\ \A k \in 1..Len(answers) : answers'[k] = answers[k]
      /\ answers'[Len(answers) + 1] = a
  BY <1>1
<1>3. /\ DOMAIN answers = 1..Len(answers) /\ Len(answers) \in Nat
      /\ DOMAIN answers' = 1..(Len(answers) + 1)
  BY <1>2
<1>4. \A k \in DOMAIN answers' : answers'[k] \in AnswerType
  BY <1>2
<1>5. Len(answers') <= N /\ answers' # <<>>
  BY <1>2, <1>3
<1>6. ASSUME NEW k \in DOMAIN answers'
      PROVE  (k \in DOMAIN answers /\ answers'[k] = answers[k]) \/ (k = K /\ answers'[k] = a)
  <2>1. k \in 1..Len(answers) \/ k = Len(answers) + 1
    BY <1>3, <1>6
  <2>2. QED  BY <1>2, <1>3, <2>1 DEF K
<1>7. QED  BY <1>2, <1>4, <1>5, <1>6

\* Workers and slow control keep it so.
LEMMA AnswersInductive == ASSUME AnswerInv, [AnswerNext]_allvars PROVE AnswerInv'
<1>0. /\ ReadInv /\ AnswerTypeOK /\ answers \in Seq(AnswerType) /\ Awaited /\ StillThere
      /\ CachedAnswerIsWhole /\ N \in Nat /\ queries \in Seq(Kinds)
      /\ DOMAIN answers = 1..Len(answers) /\ Len(answers) \in Nat
  BY DEF AnswerInv, ReadInv, N
<1>1. CASE (Next \/ UNCHANGED vars) /\ UNCHANGED avars
  <2>1. ReadInv'
    BY <1>0, <1>1, ReadInductive
  <2>2. UNCHANGED <<cached_configs, config_ids, swaps, crossed, looking, undefined, answers>>
    BY <1>1 DEF avars, cache
  <2>3. queries' = queries /\ N' = N
    BY <1>1 DEF Next, vars, Push, SkipPull, Pull, PullFails, Done, N
  <2>4. phase = "done" => phase' = "done"
    BY <1>1 DEF Next, vars, Push, SkipPull, Pull, PullFails, Done, Pulling
  <2>5. AnswerTypeOK'
    BY <1>0, <2>1, <2>2, <2>3 DEF AnswerTypeOK, ReadInv
  <2>6. Awaited' /\ StillThere' /\ CachedAnswerIsWhole'
    BY <1>0, <2>2, <2>3, <2>4 DEF Awaited, StillThere, CachedAnswerIsWhole
  <2>7. QED  BY <1>0, <2>1, <2>2, <2>5, <2>6 DEF AnswerInv
<1>2. ASSUME UNCHANGED vars
      PROVE  /\ ReadInv' /\ TypeOK' /\ queries' = queries /\ phase' = phase /\ N' = N
             /\ result' = result /\ err' = err
  <2>1. ReadInv'
    BY <1>0, <1>2, ReadInductive
  <2>2. QED  BY <1>2, <2>1 DEF vars, N, ReadInv
<1>3. ASSUME UNCHANGED vars, UNCHANGED cache, undefined' \in BOOLEAN, Answering,
             NEW a \in AnswerType, Answer(a), looking' = looking,
             queries[K] = "cached" => ~a.ok
      PROVE  AnswerInv'
  <2>1. /\ Len(answers) < N /\ phase = "done" /\ looking = {}
    BY <1>0, <1>3 DEF Answering, K
  <2>2. /\ answers' \in Seq(AnswerType) /\ Len(answers') <= N /\ answers' # <<>>
        /\ \A k \in DOMAIN answers' : answers'[k] \in AnswerType
        /\ \A k \in DOMAIN answers' : (k \in DOMAIN answers /\ answers'[k] = answers[k])
                                      \/ (k = K /\ answers'[k] = a)
    BY <1>0, <1>2, <1>3, <2>1, AnswerAdded
  <2>3. UNCHANGED <<cached_configs, config_ids, swaps, crossed, looking>>
    BY <1>3 DEF cache
  <2>4. AnswerTypeOK'
    BY <1>0, <1>2, <1>3, <2>2, <2>3 DEF AnswerTypeOK, AnswerType
  <2>5. Awaited' /\ StillThere'
    BY <1>2, <1>3, <2>1, <2>3 DEF Awaited, StillThere
  <2>6. CachedAnswerIsWhole'
    BY <1>0, <1>2, <1>3, <2>2, <2>3 DEF CachedAnswerIsWhole
  <2>7. QED  BY <1>2, <1>3, <2>2, <2>4, <2>5, <2>6 DEF AnswerInv
<1>4. ASSUME NEW d \in Device, CountConfig(d) PROVE AnswerInv'
  <2>1. UNCHANGED vars /\ UNCHANGED cache /\ undefined' = undefined /\ Answering
    BY <1>4 DEF CountConfig
  <2>2. CASE Answer(Refusal) /\ looking' = looking
    <3>1. Refusal \in AnswerType /\ ~Refusal.ok
      BY DEF Refusal, AnswerType
    <3>2. undefined' \in BOOLEAN
      BY <1>0, <2>1 DEF AnswerTypeOK
    <3>3. QED  BY <1>3, <2>1, <2>2, <3>1, <3>2
  <2>3. CASE Counted(d) /\ looking' = {[device |-> d, since |-> swaps]} /\ answers' = answers
    <3>1. UNCHANGED <<cached_configs, config_ids, swaps, crossed>>
      BY <2>1 DEF cache
    <3>2. swaps \in 0..swaps /\ phase = "done" /\ Len(answers) < N
      BY <1>0, <2>1, ReadAnswerAssumption DEF AnswerTypeOK, Answering, K
    <3>3. AnswerTypeOK'
      BY <1>0, <1>2, <2>1, <2>3, <3>1, <3>2 DEF AnswerTypeOK
    <3>4. Awaited' /\ StillThere'
      BY <1>2, <2>1, <2>3, <3>1, <3>2 DEF Awaited, StillThere, Counted
    <3>5. CachedAnswerIsWhole'
      BY <1>0, <1>2, <2>1, <2>3, <3>1 DEF CachedAnswerIsWhole
    <3>6. QED  BY <1>0, <1>2, <2>1, <2>3, <3>3, <3>4, <3>5 DEF AnswerInv
  <2>4. QED  BY <1>4, <2>2, <2>3 DEF CountConfig
<1>5. ASSUME NEW d \in Device, TakeConfig(d) PROVE AnswerInv'
  <2> DEFINE a == [ok |-> TRUE, rows |-> Entry(d)]
  <2>1. /\ UNCHANGED vars /\ UNCHANGED <<config_ids, swaps, crossed, undefined>>
        /\ looking' = {} /\ Answer(a)
        /\ cached_configs' = [e \in DOMAIN cached_configs \cup {d} |-> Entry(e)]
    BY <1>5 DEF TakeConfig
  <2>2. PICK l \in looking : l.device = d
    BY <1>5 DEF TakeConfig
  <2>3. /\ Len(answers) < N /\ phase = "done"
    BY <1>0, <2>2 DEF Awaited
  <2>4. \A e \in DOMAIN cached_configs \cup {d} : Entry(e) \subseteq 1..swaps
    BY <1>0 DEF AnswerTypeOK, Entry
  <2>5. a \in AnswerType
    <3>1. swaps \in Nat
      BY <1>0, ReadAnswerAssumption DEF AnswerTypeOK
    <3>2. Entry(d) \in SUBSET Nat
      BY <2>4, <3>1
    <3>3. QED  BY <3>2 DEF AnswerType
  <2>6. /\ answers' \in Seq(AnswerType) /\ Len(answers') <= N /\ answers' # <<>>
        /\ \A k \in DOMAIN answers' : answers'[k] \in AnswerType
        /\ \A k \in DOMAIN answers' : (k \in DOMAIN answers /\ answers'[k] = answers[k])
                                      \/ (k = K /\ answers'[k] = a)
    <3> HIDE DEF a
    <3>1. QED  BY <1>0, <1>2, <2>1, <2>3, <2>5, AnswerAdded
  <2>7. /\ DOMAIN cached_configs' = DOMAIN cached_configs \cup {d}
        /\ \A e \in DOMAIN cached_configs' : cached_configs'[e] = Entry(e)
    BY <2>1
  <2>8. AnswerTypeOK'
    <3>1. \A k \in DOMAIN answers' : answers'[k] \in [ok : BOOLEAN, rows : SUBSET Nat]
      BY <2>6 DEF AnswerType
    <3>2. QED  BY <1>0, <1>2, <2>1, <2>4, <2>6, <2>7, <3>1 DEF AnswerTypeOK
  <2>9. Awaited' /\ StillThere'
    BY <1>2, <2>1, <2>3 DEF Awaited, StillThere
  <2>10. CachedAnswerIsWhole'
    <3>1. CASE crossed
      BY <2>1, <3>1 DEF CachedAnswerIsWhole
    <3>2. CASE ~crossed
      <4>1. d \in DOMAIN cached_configs
        BY <1>0, <2>2, <3>2 DEF StillThere
      <4>2. \A e \in DOMAIN cached_configs' : cached_configs'[e] # {}
        BY <1>0, <2>7, <3>2, <4>1 DEF CachedAnswerIsWhole, Entry
      <4>3. a.rows # {}
        BY <2>7, <4>1, <4>2
      <4>4. \A k \in DOMAIN answers' :
              queries[k] = "cached" /\ answers'[k].ok => answers'[k].rows # {}
        <5> HIDE DEF a
        <5>1. QED  BY <1>0, <2>6, <3>2, <4>3 DEF CachedAnswerIsWhole
      <4>5. QED  BY <1>2, <2>1, <4>2, <4>4 DEF CachedAnswerIsWhole
    <3>3. QED  BY <3>1, <3>2
  <2>11. QED  BY <1>2, <2>1, <2>6, <2>8, <2>9, <2>10 DEF AnswerInv
<1>6. CASE LookupUndefined
  <2>1. /\ UNCHANGED vars /\ looking' = {} /\ undefined' = TRUE
        /\ UNCHANGED <<cached_configs, config_ids, swaps, crossed, answers>>
    BY <1>6 DEF LookupUndefined, cache
  <2>2. AnswerTypeOK'
    BY <1>0, <1>2, <2>1 DEF AnswerTypeOK
  <2>3. Awaited' /\ StillThere' /\ CachedAnswerIsWhole'
    BY <1>0, <1>2, <2>1 DEF Awaited, StillThere, CachedAnswerIsWhole
  <2>4. QED  BY <1>0, <1>2, <2>1, <2>2, <2>3 DEF AnswerInv
<1>7. CASE AnswerQuery
  <2>1. /\ UNCHANGED vars /\ UNCHANGED cache /\ undefined' = undefined /\ Answering
        /\ looking' = looking /\ queries[K] # "cached" /\ undefined' \in BOOLEAN
    BY <1>0, <1>7 DEF AnswerQuery, AnswerTypeOK
  <2>2. Refusal \in AnswerType
    BY DEF Refusal, AnswerType
  <2>3. [ok |-> TRUE, rows |-> {result[K]} \ {0}] \in AnswerType
    <3>1. K \in 1..N /\ result \in [1..N -> 0..N]
      BY <1>0, <2>1 DEF Answering, K, ReadInv, TypeOK
    <3>2. result[K] \in Nat
      BY <1>0, <3>1
    <3>3. QED  BY <3>2 DEF AnswerType
  <2>4. CASE Answer(Refusal)
    BY <1>3, <2>1, <2>2, <2>4
  <2>5. CASE Answer([ok |-> TRUE, rows |-> {result[K]} \ {0}])
    BY <1>3, <2>1, <2>3, <2>5
  <2>6. QED  BY <1>7, <2>4, <2>5 DEF AnswerQuery
<1>8. CASE CacheConfigs
  <2>1. /\ UNCHANGED vars /\ UNCHANGED <<config_ids, looking, undefined, answers>>
        /\ swaps < MaxSwaps /\ swaps' = swaps + 1
        /\ crossed' = (crossed \/ looking # {})
    BY <1>8 DEF CacheConfigs
  <2>2. PICK ds \in SUBSET Device : cached_configs' = [d \in ds |-> {swaps + 1}]
    BY <1>8 DEF CacheConfigs
  <2>3. /\ swaps \in Nat /\ swaps' \in 0..MaxSwaps /\ config_ids \in 0..swaps'
        /\ 1..swaps \subseteq 1..swaps' /\ 0..swaps \subseteq 0..swaps'
    BY <1>0, <2>1, ReadAnswerAssumption DEF AnswerTypeOK
  <2>4. /\ DOMAIN cached_configs' = ds
        /\ \A d \in ds : cached_configs'[d] = {swaps + 1} /\ cached_configs'[d] \subseteq 1..swaps'
    BY <2>1, <2>2, <2>3
  <2>5. \A l \in looking : l \in [device : Device, since : 0..swaps']
    BY <1>0, <2>3 DEF AnswerTypeOK
  <2>6. crossed' \in BOOLEAN
    BY <2>1
  <2>7. AnswerTypeOK'
    BY <1>0, <1>2, <2>1, <2>2, <2>3, <2>4, <2>5, <2>6 DEF AnswerTypeOK
  <2>8. Awaited' /\ StillThere'
    BY <1>0, <1>2, <2>1 DEF Awaited, StillThere
  <2>9. CachedAnswerIsWhole'
    BY <1>0, <1>2, <2>1, <2>4 DEF CachedAnswerIsWhole
  <2>10. QED  BY <1>0, <1>2, <2>1, <2>7, <2>8, <2>9 DEF AnswerInv
<1>9. CASE SetIds
  <2>1. /\ UNCHANGED vars /\ config_ids' = swaps
        /\ UNCHANGED <<cached_configs, swaps, crossed, looking, undefined, answers>>
    BY <1>9 DEF SetIds
  <2>2. AnswerTypeOK'
    <3>1. swaps \in 0..swaps
      BY <1>0, ReadAnswerAssumption DEF AnswerTypeOK
    <3>2. QED  BY <1>0, <1>2, <2>1, <3>1 DEF AnswerTypeOK
  <2>3. Awaited' /\ StillThere' /\ CachedAnswerIsWhole'
    BY <1>0, <1>2, <2>1 DEF Awaited, StillThere, CachedAnswerIsWhole
  <2>4. QED  BY <1>0, <1>2, <2>1, <2>2, <2>3 DEF AnswerInv
<1>10. QED
  BY <1>1, <1>4, <1>5, <1>6, <1>7, <1>8, <1>9 DEF AnswerNext, WorkerNext, allvars

-----------------------------------------------------------------------------
(* A batch of writes.                                                      *)

\* The types that W!TypeOK leaves to the rest.
VersionType == {"none", "garbage"} \cup (Nat \X Nat)
ReplyType == [ok : BOOLEAN, version : VersionType]

Replies ==
  /\ pc \in {"pool", "buffering", "database", "undefined"} => reply = <<>>
  /\ pc = "results" => Len(reply) = n - 1
  /\ pc = "answered" => Len(reply) = Len(w_queries)

WriteTypes ==
  /\ W!TypeOK /\ Replies /\ (pc # "pool" => use >= 1)
  /\ w_queries \in Seq(Messages) /\ n \in Nat /\ n >= 1
  /\ buffer \in [W!Topic -> Seq(Nat \X Nat)]
  /\ version_nums \in [W!Versioned -> Seq(Nat \X Nat)]
  /\ next_version \in [W!Versioned -> Nat] /\ \A t \in W!Versioned : next_version[t] >= 1
  /\ generic_query_indices \in Seq(Nat) /\ reply \in Seq(ReplyType)

\* What the batch holds is of its present use.
OfThisUse ==
  /\ \A t \in W!Topic : \A k \in DOMAIN buffer[t] : buffer[t][k][1] = use
  /\ \A t \in W!Versioned : \A k \in DOMAIN version_nums[t] : version_nums[t][k][1] = use

\* Queries below this have been put into their buffers.
Buffered(k) == pc = "buffering" => k < n

\* The rows of a topic are those of its queries, in their order.
RowsInOrder(t) ==
  /\ \A k \in DOMAIN buffer[t] :
       LET q == buffer[t][k][2] IN
       /\ q \in DOMAIN w_queries /\ Buffered(q) /\ w_queries[q].topic = t
       /\ \A l \in DOMAIN buffer[t] : l < k => buffer[t][l][2] < q
  /\ \A q \in DOMAIN w_queries : Buffered(q) /\ w_queries[q].topic = t =>
       \E k \in DOMAIN buffer[t] : buffer[t][k][2] = q

\* An insert that worked returned the rows there were.
Past(t) == \/ pc \in {"results", "answered"}
           \/ pc = "database" /\ \E k \in DOMAIN TopicOrder : k < n /\ TopicOrder[k] = t
Returned(t) == ~batch_err[t] => version_nums[t] = IF Past(t) THEN buffer[t] ELSE <<>>

\* The next version number of a topic is that of its next query.
NextIsNext(t) ==
  ~batch_err[t] => \A k \in DOMAIN buffer[t] : k < next_version[t] <=> buffer[t][k][2] < n

Replied == \A k \in DOMAIN reply : w_queries[k].topic \in W!Versioned =>
  reply[k] = IF batch_err[w_queries[k].topic] THEN W!NoReply
             ELSE [ok |-> TRUE, version |-> W!Row(k)]

OrderInv ==
  /\ pc \in {"buffering", "database", "results", "answered"} /\ W!Clean =>
       \A t \in W!Topic : RowsInOrder(t)
  /\ pc \in {"buffering", "database", "results", "answered"} =>
       \A t \in W!Versioned : Returned(t)
  /\ pc = "results" /\ W!Clean /\ W!FailsWhole => \A t \in W!Versioned : NextIsNext(t)
  /\ pc \in {"results", "answered"} /\ W!Clean /\ W!FailsWhole => Replied

\* What the constants are known to be, spelled out.
LEMMA Constants ==
  /\ TopicOrder \in Seq(W!Topic) /\ DOMAIN TopicOrder = 1..Len(TopicOrder)
  /\ \A k, l \in DOMAIN TopicOrder : TopicOrder[k] = TopicOrder[l] => k = l
  /\ \A k \in DOMAIN TopicOrder : TopicOrder[k] \in W!Topic
  /\ Len(TopicOrder) \in Nat
  /\ "alarm" \in W!Topic /\ "generic" \notin W!Topic /\ "unknown" \notin W!Topic
  /\ \A m \in Messages : /\ m.topic \in W!Topic \cup {"generic", "unknown"}
                         /\ m.bad \in BOOLEAN
  /\ MaxWrites \in Nat /\ MaxFailures \in Nat /\ MaxUses \in Nat
  /\ \A t : t \in W!Versioned <=> t \in W!Topic /\ t # "alarm"
<1>1. /\ TopicOrder \in Seq(W!Topic) /\ W!IsInjective(TopicOrder)
      /\ "alarm" \in W!Topic /\ "generic" \notin W!Topic /\ "unknown" \notin W!Topic
      /\ \A m \in Messages : /\ m.topic \in W!Topic \cup {"generic", "unknown"}
                             /\ m.bad \in BOOLEAN
      /\ MaxWrites \in Nat /\ MaxFailures \in Nat /\ MaxUses \in Nat
  BY WriteAssumption DEF W!MessagesAreKnown
<1>2. DOMAIN TopicOrder = 1..Len(TopicOrder) /\ Len(TopicOrder) \in Nat
      /\ \A k \in DOMAIN TopicOrder : TopicOrder[k] \in W!Topic
  BY <1>1
<1>3. \A k, l \in DOMAIN TopicOrder : TopicOrder[k] = TopicOrder[l] => k = l
  BY <1>1 DEF W!IsInjective
<1>4. QED  BY <1>1, <1>2, <1>3 DEF W!Versioned

\* The elements of a sequence.
LEMMA Elements ==
  ASSUME NEW S, NEW s \in Seq(S)
  PROVE  /\ DOMAIN s = 1..Len(s) /\ Len(s) \in Nat
         /\ W!ToSet(s) \subseteq S
         /\ \A x : x \in W!ToSet(s) <=> \E k \in DOMAIN s : x = s[k]
BY DEF W!ToSet

\* One more element.
LEMMA AppendElements ==
  ASSUME NEW S, NEW s \in Seq(S), NEW x \in S
  PROVE  /\ Append(s, x) \in Seq(S) /\ Len(Append(s, x)) = Len(s) + 1
         /\ \A k \in 1..Len(s) : Append(s, x)[k] = s[k]
         /\ Append(s, x)[Len(s) + 1] = x
         /\ W!ToSet(Append(s, x)) = W!ToSet(s) \cup {x}
         /\ DOMAIN Append(s, x) = 1..(Len(s) + 1)
<1>1. /\ Append(s, x) \in Seq(S) /\ Len(Append(s, x)) = Len(s) + 1
      /\ \A k \in 1..Len(s) : Append(s, x)[k] = s[k]
      /\ Append(s, x)[Len(s) + 1] = x
      /\ DOMAIN Append(s, x) = 1..(Len(s) + 1) /\ DOMAIN s = 1..Len(s) /\ Len(s) \in Nat
  OBVIOUS
<1>2. W!ToSet(Append(s, x)) = W!ToSet(s) \cup {x}
  <2>1. \A k \in 1..(Len(s) + 1) : k \in 1..Len(s) \/ k = Len(s) + 1
    BY <1>1
  <2>2. 1..Len(s) \subseteq 1..(Len(s) + 1) /\ Len(s) + 1 \in 1..(Len(s) + 1)
    BY <1>1
  <2>3. QED  BY <1>1, <2>1, <2>2 DEF W!ToSet
<1>3. QED  BY <1>1, <1>2

\* What an insert collects: the rows' version numbers, or the first of them.
Collect(s, t, k) == s \o SubSeq(t, 1, k)

LEMMA Collected ==
  ASSUME NEW S, NEW s \in Seq(S), NEW t \in Seq(S), NEW k \in Nat, k <= Len(t)
  PROVE  /\ Collect(s, t, k) \in Seq(S)
         /\ \A l \in 1..Len(Collect(s, t, k)) :
              \/ \E h \in 1..Len(s) : Collect(s, t, k)[l] = s[h]
              \/ \E h \in 1..Len(t) : Collect(s, t, k)[l] = t[h]
<1>1. /\ Len(s) \in Nat /\ Len(t) \in Nat /\ k \in Nat /\ k <= Len(t)
      /\ DOMAIN s = 1..Len(s) /\ DOMAIN t = 1..Len(t)
  OBVIOUS
<1>2. /\ SubSeq(t, 1, k) \in Seq(S) /\ Len(SubSeq(t, 1, k)) = k
      /\ \A h \in 1..k : SubSeq(t, 1, k)[h] = t[h]
  <2>1. \A h \in 1..k : t[h] \in S
    BY <1>1
  <2>2. SubSeq(t, 1, k) = [h \in 1..k |-> t[h]]
    BY <1>1
  <2>3. QED  BY <1>1, <2>1, <2>2
<1>3. PICK u \in Seq(S) : u = SubSeq(t, 1, k)
  BY <1>2
<1>4. /\ s \o u \in Seq(S) /\ Len(s \o u) = Len(s) + Len(u)
      /\ \A l \in 1..(Len(s) + Len(u)) :
           (s \o u)[l] = IF l <= Len(s) THEN s[l] ELSE u[l - Len(s)]
  BY ConcatProperties
<1>5. DOMAIN (s \o u) = 1..(Len(s) + k)
  BY <1>2, <1>3, <1>4
<1>6. ASSUME NEW l \in DOMAIN (s \o u)
      PROVE  (\E h \in DOMAIN s : (s \o u)[l] = s[h]) \/ (\E h \in DOMAIN t : (s \o u)[l] = t[h])
  <2>1. CASE l <= Len(s)
    BY <1>1, <1>2, <1>3, <1>4, <1>5, <2>1
  <2>2. CASE ~(l <= Len(s))
    <3>1. l - Len(s) \in 1..k /\ l - Len(s) \in DOMAIN t
      BY <1>1, <1>5, <2>2
    <3>2. QED  BY <1>1, <1>2, <1>3, <1>4, <1>5, <2>2, <3>1
  <2>3. QED  BY <2>1, <2>2
<1>7. QED  BY <1>1, <1>3, <1>4, <1>6 DEF Collect

\* What every step can count on.
LEMMA Typed ==
  ASSUME WriteTypes
  PROVE  /\ use \in Nat /\ use <= MaxUses /\ failures \in Nat /\ failures <= MaxFailures
         /\ Len(w_queries) \in Nat /\ Len(w_queries) <= MaxWrites
         /\ DOMAIN w_queries = 1..Len(w_queries)
         /\ \A k \in DOMAIN w_queries : w_queries[k] \in Messages
         /\ Len(reply) \in Nat /\ DOMAIN reply = 1..Len(reply)
         /\ n \in Nat /\ n >= 1
         /\ batch_err \in [W!Topic -> BOOLEAN]
         /\ \A t \in W!Topic :
              /\ buffer[t] \in Seq(Nat \X Nat)
              /\ DOMAIN buffer[t] = 1..Len(buffer[t]) /\ Len(buffer[t]) \in Nat
              /\ \A k \in DOMAIN buffer[t] : buffer[t][k] \in (1..use) \X (1..MaxWrites)
         /\ \A t \in W!Versioned : version_nums[t] \in Seq(Nat \X Nat)
<1>1. /\ W!TypeOK /\ w_queries \in Seq(Messages) /\ n \in Nat /\ n >= 1
      /\ buffer \in [W!Topic -> Seq(Nat \X Nat)]
      /\ version_nums \in [W!Versioned -> Seq(Nat \X Nat)] /\ reply \in Seq(ReplyType)
  BY DEF WriteTypes
<1>2. use \in Nat /\ use <= MaxUses /\ failures \in Nat /\ failures <= MaxFailures
  BY <1>1, Constants DEF W!TypeOK
<1>3. /\ Len(w_queries) <= MaxWrites /\ batch_err \in [W!Topic -> BOOLEAN]
      /\ \A t \in W!Topic : W!ToSet(buffer[t]) \subseteq (1..use) \X (1..MaxWrites)
  BY <1>1 DEF W!TypeOK
<1>4. /\ Len(w_queries) \in Nat /\ DOMAIN w_queries = 1..Len(w_queries)
      /\ \A k \in DOMAIN w_queries : w_queries[k] \in Messages
      /\ Len(reply) \in Nat /\ DOMAIN reply = 1..Len(reply)
  BY <1>1
<1>5. ASSUME NEW t \in W!Topic
      PROVE  /\ buffer[t] \in Seq(Nat \X Nat)
             /\ DOMAIN buffer[t] = 1..Len(buffer[t]) /\ Len(buffer[t]) \in Nat
             /\ \A k \in DOMAIN buffer[t] : buffer[t][k] \in (1..use) \X (1..MaxWrites)
  <2>1. buffer[t] \in Seq(Nat \X Nat)
    BY <1>1
  <2>2. QED  BY <1>3, <2>1, Elements
<1>6. \A t \in W!Versioned : version_nums[t] \in Seq(Nat \X Nat)
  BY <1>1
<1>7. QED  BY <1>1, <1>2, <1>3, <1>4, <1>5, <1>6

\* The batch of the pool is empty.
LEMMA WritesInitially == W!Init => WriteTypes /\ OfThisUse /\ OrderInv
<1> SUFFICES ASSUME W!Init PROVE WriteTypes /\ OfThisUse /\ OrderInv
  OBVIOUS
<1>1. /\ use = 0 /\ w_queries = <<>> /\ pc = "pool" /\ n = 1
      /\ buffer = [t \in W!Topic |-> <<>>] /\ out_buffer = "none"
      /\ generic_query_indices = <<>>
      /\ version_nums = [t \in W!Versioned |-> <<>>]
      /\ batch_err = [t \in W!Topic |-> FALSE]
      /\ w_err = {} /\ inserted = {} /\ failures = 0
      /\ next_version = [t \in W!Versioned |-> 1]
      /\ reply = <<>>
  BY DEF W!Init
<1>2. /\ W!ToSet(<<>>) = {} /\ DOMAIN <<>> = {} /\ Len(<<>>) = 0
      /\ \A S : <<>> \in Seq(S)
  BY DEF W!ToSet
<1>3. \A t \in W!Versioned : t \in W!Topic
  BY Constants
<1>4. W!TypeOK
  <2>1. 0 \in 0..MaxUses /\ 0 \in 0..MaxFailures /\ 0 <= MaxWrites /\ 0 <= 0
    BY Constants
  <2>2. \A t \in W!Topic : W!ToSet(buffer[t]) = {}
    BY <1>1, <1>2
  <2>3. batch_err \in [W!Topic -> BOOLEAN]
    BY <1>1
  <2>4. QED  BY <1>1, <1>2, <2>1, <2>2, <2>3 DEF W!TypeOK
<1>5. Replies
  BY <1>1 DEF Replies
<1>6. WriteTypes
  <2>1. /\ w_queries \in Seq(Messages) /\ reply \in Seq(ReplyType)
        /\ generic_query_indices \in Seq(Nat)
    BY <1>1, <1>2
  <2>2. /\ buffer \in [W!Topic -> Seq(Nat \X Nat)]
        /\ version_nums \in [W!Versioned -> Seq(Nat \X Nat)]
    BY <1>1, <1>2
  <2>3. /\ next_version \in [W!Versioned -> Nat] /\ \A t \in W!Versioned : next_version[t] >= 1
        /\ n \in Nat /\ n >= 1
    BY <1>1
  <2>4. QED  BY <1>1, <1>4, <1>5, <2>1, <2>2, <2>3 DEF WriteTypes
<1>7. OfThisUse
  BY <1>1, <1>2 DEF OfThisUse
<1>8. OrderInv
  BY <1>1 DEF OrderInv
<1>9. QED  BY <1>6, <1>7, <1>8

WriteInv == WriteTypes /\ OfThisUse /\ OrderInv

\* A job finds a batch that holds nothing.
LEMMA StartKeeps == ASSUME WriteInv, W!StartJob PROVE WriteInv'
<1>1. /\ pc' = "buffering" /\ n' = 1 /\ reply' = <<>> /\ use' = use + 1 /\ use < MaxUses
      /\ w_err' = {} /\ out_buffer' = "none" /\ generic_query_indices' = <<>>
      /\ buffer' = [t \in W!Topic |-> <<>>]
      /\ version_nums' = [t \in W!Versioned |-> <<>>]
      /\ batch_err' = [t \in W!Topic |-> FALSE]
      /\ UNCHANGED <<next_version, failures>>
  BY DEF W!StartJob, W!Reset
<1>2. PICK k \in 1..MaxWrites : w_queries' \in [1..k -> Messages]
  BY DEF W!StartJob
<1>3. /\ W!ToSet(<<>>) = {} /\ DOMAIN <<>> = {} /\ Len(<<>>) = 0
      /\ \A S : <<>> \in Seq(S)
  BY DEF W!ToSet
<1>4. k \in Nat /\ k <= MaxWrites /\ w_queries' \in Seq(Messages) /\ Len(w_queries') = k
  BY <1>2, Constants
<1>5. /\ use \in Nat /\ failures \in 0..MaxFailures
      /\ next_version \in [W!Versioned -> Nat] /\ \A t \in W!Versioned : next_version[t] >= 1
      /\ \A t \in W!Versioned : t \in W!Topic
  BY Typed, Constants DEF WriteInv, WriteTypes, W!TypeOK
<1>6. W!TypeOK'
  <2>1. use' \in 0..MaxUses
    BY <1>1, <1>5, Constants
  <2>2. W!ToSet(w_queries') \subseteq Messages
    BY <1>4, Elements
  <2>3. \A t \in W!Topic : W!ToSet(buffer'[t]) = {}
    BY <1>1, <1>3
  <2>4. batch_err' \in [W!Topic -> BOOLEAN]
    BY <1>1
  <2>5. Len(reply') <= Len(w_queries')
    BY <1>1, <1>3, <1>4
  <2>6. QED  BY <1>1, <1>3, <1>4, <1>5, <2>1, <2>2, <2>3, <2>4, <2>5 DEF W!TypeOK
<1>7. WriteTypes'
  <2>1. /\ buffer' \in [W!Topic -> Seq(Nat \X Nat)]
        /\ version_nums' \in [W!Versioned -> Seq(Nat \X Nat)]
        /\ reply' \in Seq(ReplyType) /\ generic_query_indices' \in Seq(Nat)
    BY <1>1, <1>3
  <2>2. Replies'
    BY <1>1 DEF Replies
  <2>3. QED  BY <1>1, <1>4, <1>5, <1>6, <2>1, <2>2 DEF WriteTypes
<1>8. OfThisUse'
  BY <1>1, <1>3, <1>5 DEF OfThisUse
<1>9. OrderInv'
  <2>1. DOMAIN w_queries' = 1..k
    BY <1>2
  <2>2. \A q \in DOMAIN w_queries' : ~Buffered(q)'
    BY <1>1, <2>1 DEF Buffered
  <2>3. \A t \in W!Topic : RowsInOrder(t)'
    BY <1>1, <1>3, <2>2 DEF RowsInOrder
  <2>4. \A t \in W!Versioned : Returned(t)'
    BY <1>1 DEF Returned, Past
  <2>5. QED  BY <1>1, <2>3, <2>4 DEF OrderInv
<1>10. QED  BY <1>7, <1>8, <1>9 DEF WriteInv

\* A message that does not decompress leaves the batch unclean.
LEMMA FlagKeeps == ASSUME WriteInv, NEW m \in Messages, W!FlagBad(m) PROVE WriteInv'
<1>1. /\ pc = "buffering" /\ n \in 1..Len(w_queries) /\ m = w_queries[n] /\ m.bad
      /\ n' = n + 1 /\ w_err' = w_err \cup {n}
      /\ UNCHANGED <<use, w_queries, version_nums, batch_err, next_version, reply, failures,
                     buffer, out_buffer, generic_query_indices, pc>>
  BY Typed DEF W!FlagBad, W!Buffering, W!batch, WriteInv
<1>2. n \in DOMAIN w_queries /\ n \in Nat /\ n + 1 \in Nat /\ n + 1 >= 1
  BY <1>1, Typed DEF WriteInv
<1>3. W!TypeOK'
  BY <1>1, <1>2 DEF WriteInv, WriteTypes, W!TypeOK
<1>4. WriteTypes'
  BY <1>1, <1>2, <1>3 DEF WriteInv, WriteTypes, Replies
<1>5. OfThisUse'
  BY <1>1 DEF WriteInv, OfThisUse
<1>6. ~W!Clean'
  BY <1>1, <1>2 DEF W!Clean
<1>7. OrderInv'
  <2>1. \A t \in W!Versioned : Returned(t)'
    BY <1>1 DEF WriteInv, OrderInv, Returned, Past
  <2>2. QED  BY <1>6, <2>1 DEF OrderInv
<1>8. QED  BY <1>4, <1>5, <1>7 DEF WriteInv

\* A query that is left out of the buffers leaves them as they are.
LEMMA GenericKeeps == ASSUME WriteInv, NEW m \in Messages, W!NoteGeneric(m) PROVE WriteInv'
<1>1. /\ pc = "buffering" /\ n \in 1..Len(w_queries) /\ m = w_queries[n] /\ m.topic = "generic"
      /\ n' = n + 1 /\ generic_query_indices' = Append(generic_query_indices, n)
      /\ UNCHANGED <<use, w_queries, version_nums, batch_err, next_version, reply, failures,
                     buffer, out_buffer, w_err, pc>>
  BY Typed DEF W!NoteGeneric, W!IsGeneric, W!Buffering, WriteInv
<1>2. /\ n \in DOMAIN w_queries /\ n \in Nat /\ n + 1 \in Nat /\ n + 1 >= 1
      /\ DOMAIN w_queries = 1..Len(w_queries) /\ Len(w_queries) \in Nat
  BY <1>1, Typed DEF WriteInv
<1>3. /\ generic_query_indices' \in Seq(Nat)
      /\ W!ToSet(generic_query_indices') = W!ToSet(generic_query_indices) \cup {n}
  <2>1. generic_query_indices \in Seq(Nat)
    BY DEF WriteInv, WriteTypes
  <2>2. QED  BY <1>1, <1>2, <2>1, AppendElements
<1>4. W!TypeOK'
  BY <1>1, <1>2, <1>3 DEF WriteInv, WriteTypes, W!TypeOK
<1>5. WriteTypes'
  BY <1>1, <1>2, <1>3, <1>4 DEF WriteInv, WriteTypes, Replies
<1>6. OfThisUse'
  BY <1>1 DEF WriteInv, OfThisUse
<1>7. OrderInv'
  <2>1. \A t \in W!Versioned : Returned(t)'
    BY <1>1 DEF WriteInv, OrderInv, Returned, Past
  <2>2. ASSUME W!Clean', NEW t \in W!Topic PROVE RowsInOrder(t)'
    <3>1. RowsInOrder(t)
      BY <1>1, <2>2 DEF WriteInv, OrderInv, W!Clean
    <3>2. \A q \in DOMAIN w_queries : Buffered(q) => Buffered(q)'
      BY <1>1, <1>2 DEF Buffered
    <3>3. \A q \in DOMAIN w_queries : Buffered(q)' => Buffered(q) \/ q = n
      BY <1>1, <1>2 DEF Buffered
    <3>4. w_queries[n].topic # t
      BY <1>1, Constants
    <3>5. QED  BY <1>1, <3>1, <3>2, <3>3, <3>4 DEF RowsInOrder
  <2>3. QED  BY <1>1, <2>1, <2>2 DEF OrderInv
<1>8. QED  BY <1>5, <1>6, <1>7 DEF WriteInv

\* A row is put behind those of the queries before.
LEMMA AppendKeeps == ASSUME WriteInv, NEW m \in Messages, W!AppendRow(m) PROVE WriteInv'
<1>1. /\ pc = "buffering" /\ n \in 1..Len(w_queries) /\ m = w_queries[n]
      /\ ~m.bad /\ m.topic # "generic" /\ n' = n + 1
      /\ UNCHANGED <<use, w_queries, version_nums, batch_err, next_version, reply, failures,
                     generic_query_indices, w_err>>
  BY Typed DEF W!AppendRow, W!IsGeneric, W!Buffering, WriteInv
<1>2. \/ \E t \in W!Topic :
           /\ t = W!OutBuffer(m.topic) /\ out_buffer' = t /\ pc' = pc
           /\ buffer' = [buffer EXCEPT ![t] = Append(@, <<use, n>>)]
      \/ pc' = "undefined" /\ UNCHANGED <<buffer, out_buffer>>
  BY DEF W!AppendRow, W!Row
<1>3. /\ n \in DOMAIN w_queries /\ n \in Nat /\ n + 1 \in Nat /\ n + 1 >= 1 /\ n <= MaxWrites
      /\ DOMAIN w_queries = 1..Len(w_queries) /\ Len(w_queries) \in Nat
      /\ use \in Nat /\ use >= 1
  BY <1>1, Typed, Constants DEF WriteInv, WriteTypes
<1>4. CASE pc' = "undefined" /\ UNCHANGED <<buffer, out_buffer>>
  <2>1. W!TypeOK'
    BY <1>1, <1>4 DEF WriteInv, WriteTypes, W!TypeOK
  <2>2. Replies'
    BY <1>1, <1>4 DEF WriteInv, WriteTypes, Replies
  <2>3. WriteTypes'
    BY <1>1, <1>3, <1>4, <2>1, <2>2 DEF WriteInv, WriteTypes
  <2>4. OfThisUse'
    BY <1>1, <1>4 DEF WriteInv, OfThisUse
  <2>5. OrderInv'
    BY <1>4 DEF OrderInv
  <2>6. QED  BY <2>3, <2>4, <2>5 DEF WriteInv
<1>5. ASSUME NEW t \in W!Topic, t = W!OutBuffer(m.topic), out_buffer' = t, pc' = pc,
             buffer' = [buffer EXCEPT ![t] = Append(@, <<use, n>>)]
      PROVE  WriteInv'
  <2> DEFINE row == <<use, n>>
  <2>1. /\ buffer \in [W!Topic -> Seq(Nat \X Nat)] /\ row \in Nat \X Nat
        /\ row \in (1..use) \X (1..MaxWrites) /\ buffer[t] \in Seq(Nat \X Nat)
    BY <1>1, <1>3, <1>5, Constants DEF WriteInv, WriteTypes
  <2>2. /\ buffer' \in [W!Topic -> Seq(Nat \X Nat)]
        /\ buffer'[t] = Append(buffer[t], row)
        /\ \A v \in W!Topic : v # t => buffer'[v] = buffer[v]
    <3>1. Append(buffer[t], row) \in Seq(Nat \X Nat)
      BY <2>1
    <3>2. QED  BY <1>5, <2>1, <3>1
  <2>3. /\ DOMAIN buffer[t] = 1..Len(buffer[t]) /\ Len(buffer[t]) \in Nat
        /\ DOMAIN buffer'[t] = 1..(Len(buffer[t]) + 1)
        /\ \A k \in DOMAIN buffer[t] : buffer'[t][k] = buffer[t][k]
        /\ buffer'[t][Len(buffer[t]) + 1] = row
        /\ W!ToSet(buffer'[t]) = W!ToSet(buffer[t]) \cup {row}
    <3> HIDE DEF row
    <3>1. PICK s \in Seq(Nat \X Nat) : s = buffer[t]
      BY <2>1
    <3>2. /\ Append(s, row)[Len(s) + 1] = row
          /\ \A k \in 1..Len(s) : Append(s, row)[k] = s[k]
          /\ W!ToSet(Append(s, row)) = W!ToSet(s) \cup {row}
          /\ DOMAIN Append(s, row) = 1..(Len(s) + 1)
      <4> DEFINE S == Nat \X Nat
      <4>1. s \in Seq(S) /\ row \in S
        BY <2>1, <3>1
      <4> HIDE DEF S
      <4>2. QED  BY <4>1, AppendElements
    <3>3. DOMAIN s = 1..Len(s) /\ Len(s) \in Nat
      BY Elements
    <3>4. buffer'[t] = Append(s, row)
      BY <2>2, <3>1
    <3>5. PICK u : u = Append(s, row)
      OBVIOUS
    <3>6. QED  BY <3>1, <3>2, <3>3, <3>4, <3>5
  <2>4. WriteTypes'
    <3>1. \A v \in W!Topic : W!ToSet(buffer'[v]) \subseteq (1..use) \X (1..MaxWrites)
      <4> HIDE DEF row
      <4>1. QED  BY <2>1, <2>2, <2>3 DEF WriteInv, WriteTypes, W!TypeOK
    <3>2. W!TypeOK'
      <4> HIDE DEF row
      <4>1. QED  BY <1>1, <1>5, <3>1 DEF WriteInv, WriteTypes, W!TypeOK
    <3>3. QED  BY <1>1, <1>3, <1>5, <2>2, <3>2 DEF WriteInv, WriteTypes, Replies
  <2>5. OfThisUse'
    <3>1. ASSUME NEW v \in W!Topic, NEW k \in DOMAIN buffer'[v] PROVE buffer'[v][k][1] = use
      <4>1. CASE v # t
        <5>1. buffer'[v] = buffer[v] /\ k \in DOMAIN buffer[v]
          BY <2>2, <4>1
        <5>2. QED  BY <5>1 DEF WriteInv, OfThisUse
      <4>2. CASE v = t /\ k \in DOMAIN buffer[t]
        BY <1>5, <2>3, <4>2 DEF WriteInv, OfThisUse
      <4>3. CASE v = t /\ k = Len(buffer[t]) + 1
        BY <2>3, <4>3
      <4>4. QED
        <5>1. QED  BY <2>3, <3>1, <4>1, <4>2, <4>3
    <3>2. QED  BY <1>1, <3>1 DEF WriteInv, OfThisUse
  <2>6. OrderInv'
    <3>1. \A v \in W!Versioned : Returned(v)'
      BY <1>1, <1>5 DEF WriteInv, OrderInv, Returned, Past
    <3>2. ASSUME W!Clean' PROVE \A v \in W!Topic : RowsInOrder(v)'
      <4>1. W!Clean /\ m.topic # "unknown"
        BY <1>1, <1>3, <3>2 DEF W!Clean
      <4>2. m.topic = t /\ w_queries[n].topic = t
        BY <1>1, <1>5, <4>1, Constants DEF W!OutBuffer
      <4>3. \A v \in W!Topic : RowsInOrder(v)
        BY <1>1, <4>1 DEF WriteInv, OrderInv
      <4>4. \A q \in DOMAIN w_queries : (q < n <=> Buffered(q)) /\ (q < n + 1 <=> Buffered(q)')
        BY <1>1, <1>5 DEF Buffered
      <4>5. ASSUME NEW v \in W!Topic, v # t PROVE RowsInOrder(v)'
        <5>1. RowsInOrder(v) /\ buffer'[v] = buffer[v] /\ w_queries' = w_queries
          BY <1>1, <2>2, <4>3, <4>5
        <5>2. \A q \in DOMAIN w_queries : Buffered(q) => Buffered(q)'
          BY <1>3, <4>4
        <5>3. \A q \in DOMAIN w_queries : Buffered(q)' /\ w_queries[q].topic = v => Buffered(q)
          BY <1>3, <4>2, <4>4, <4>5
        <5>4. QED  BY <5>1, <5>2, <5>3 DEF RowsInOrder
      <4>6. RowsInOrder(t)'
        <5>1. /\ \A k \in DOMAIN buffer[t] :
                   /\ buffer[t][k][2] \in DOMAIN w_queries /\ buffer[t][k][2] < n
                   /\ w_queries[buffer[t][k][2]].topic = t
              /\ \A k, l \in DOMAIN buffer[t] : l < k => buffer[t][l][2] < buffer[t][k][2]
              /\ \A q \in DOMAIN w_queries : q < n /\ w_queries[q].topic = t =>
                   \E k \in DOMAIN buffer[t] : buffer[t][k][2] = q
          BY <1>5, <4>3, <4>4 DEF RowsInOrder
        <5>2. row[2] = n
          OBVIOUS
        <5> HIDE DEF row
        <5>3. ASSUME NEW k \in DOMAIN buffer'[t]
              PROVE  /\ buffer'[t][k][2] \in DOMAIN w_queries /\ buffer'[t][k][2] < n + 1
                     /\ w_queries[buffer'[t][k][2]].topic = t
                     /\ \A l \in DOMAIN buffer'[t] : l < k => buffer'[t][l][2] < buffer'[t][k][2]
          <6>1. CASE k \in DOMAIN buffer[t]
            <7>1. \A l \in DOMAIN buffer'[t] : l < k => l \in DOMAIN buffer[t]
              BY <2>3, <6>1
            <7>2. buffer'[t][k][2] < n /\ buffer'[t][k][2] \in Nat
              BY <1>3, <2>3, <5>1, <6>1
            <7>3. ASSUME NEW l \in DOMAIN buffer'[t], l < k
                  PROVE  buffer'[t][l][2] < buffer'[t][k][2]
              <8>1. l \in DOMAIN buffer[t]
                BY <7>1, <7>3
              <8>2. buffer'[t][l] = buffer[t][l] /\ buffer'[t][k] = buffer[t][k]
                BY <2>3, <6>1, <8>1
              <8>3. buffer[t][l][2] < buffer[t][k][2]
                BY <5>1, <6>1, <7>3, <8>1
              <8>4. QED  BY <8>2, <8>3
            <7>4. buffer'[t][k][2] \in DOMAIN w_queries /\ w_queries[buffer'[t][k][2]].topic = t
              <8>1. buffer'[t][k] = buffer[t][k]
                BY <2>3, <6>1
              <8>2. QED  BY <5>1, <6>1, <8>1
            <7>5. buffer'[t][k][2] < n + 1
              BY <1>3, <7>2
            <7>6. QED  BY <7>3, <7>4, <7>5
          <6>2. CASE k = Len(buffer[t]) + 1
            <7>1. \A l \in DOMAIN buffer'[t] : l < k => l \in DOMAIN buffer[t]
              BY <2>3, <6>2
            <7>2. buffer'[t][k][2] = n
              BY <2>3, <5>2, <6>2
            <7>3. ASSUME NEW l \in DOMAIN buffer'[t], l < k PROVE buffer'[t][l][2] < n
              <8>1. l \in DOMAIN buffer[t]
                BY <7>1, <7>3
              <8>2. QED  BY <2>3, <5>1, <8>1
            <7>4. QED  BY <1>3, <4>2, <7>2, <7>3
          <6>3. QED  BY <2>3, <5>3, <6>1, <6>2
        <5>4. ASSUME NEW q \in DOMAIN w_queries, q < n + 1, w_queries[q].topic = t
              PROVE  \E k \in DOMAIN buffer'[t] : buffer'[t][k][2] = q
          <6>1. CASE q < n
            <7>1. PICK k \in DOMAIN buffer[t] : buffer[t][k][2] = q
              BY <5>1, <5>4, <6>1
            <7>2. k \in DOMAIN buffer'[t]
              BY <2>3
            <7>3. QED  BY <2>3, <7>1, <7>2
          <6>2. CASE q = n
            BY <2>3, <5>2, <6>2
          <6>3. QED  BY <1>3, <5>4, <6>1, <6>2
        <5>5. QED  BY <1>1, <4>4, <5>3, <5>4 DEF RowsInOrder
      <4>7. QED  BY <4>5, <4>6
    <3>3. QED  BY <1>1, <1>5, <3>1, <3>2 DEF OrderInv
  <2>7. QED  BY <2>4, <2>5, <2>6 DEF WriteInv
<1>6. QED  BY <1>2, <1>4, <1>5

\* All the rows are there when the database is given them.
LEMMA DatabaseKeeps == ASSUME WriteInv, W!PassToDatabase PROVE WriteInv'
<1>1. /\ pc = "buffering" /\ n > Len(w_queries) /\ pc' = "database" /\ n' = 1
      /\ UNCHANGED <<use, w_queries, version_nums, batch_err, next_version, reply, failures,
                     buffer, out_buffer, generic_query_indices, w_err>>
  BY DEF W!PassToDatabase, W!batch
<1>2. WriteTypes'
  <2>1. W!TypeOK'
    BY <1>1 DEF WriteInv, WriteTypes, W!TypeOK
  <2>2. QED  BY <1>1, <2>1 DEF WriteInv, WriteTypes, Replies
<1>3. OfThisUse'
  BY <1>1 DEF WriteInv, OfThisUse
<1>4. OrderInv'
  <2>1. \A q \in DOMAIN w_queries : Buffered(q) /\ Buffered(q)'
    BY <1>1, Typed DEF Buffered, WriteInv
  <2>2. ASSUME W!Clean', NEW t \in W!Topic PROVE RowsInOrder(t)'
    <3>1. RowsInOrder(t)
      BY <1>1, <2>2 DEF WriteInv, OrderInv, W!Clean
    <3>2. QED  BY <1>1, <2>1, <3>1 DEF RowsInOrder
  <2>3. ASSUME NEW t \in W!Versioned PROVE Returned(t)'
    <3>1. Returned(t) /\ ~Past(t)
      BY <1>1 DEF WriteInv, OrderInv, Past
    <3>2. ~Past(t)'
      <4>1. \A k \in DOMAIN TopicOrder : ~(k < 1)
        BY Constants
      <4>2. QED  BY <1>1, <4>1 DEF Past
    <3>3. QED  BY <1>1, <3>1, <3>2 DEF Returned
  <2>4. QED  BY <1>1, <2>2, <2>3 DEF OrderInv
<1>5. QED  BY <1>2, <1>3, <1>4 DEF WriteInv

\* The insert of a topic is the next to be past; the others stay where they were.
LEMMA NextPast ==
  ASSUME pc = "database", n \in DOMAIN TopicOrder, pc' = pc, n' = n + 1,
         NEW t \in W!Topic
  PROVE  /\ t = TopicOrder[n] => ~Past(t) /\ Past(t)'
         /\ t # TopicOrder[n] => Past(t)' = Past(t)
<1>1. n \in Nat /\ \A k \in DOMAIN TopicOrder : k \in Nat
  BY Constants
<1>2. \A k \in DOMAIN TopicOrder : k < n + 1 <=> k < n \/ k = n
  BY <1>1
<1>3. n < n + 1 /\ ~(n < n)
  BY <1>1
<1>4. CASE t = TopicOrder[n]
  <2>1. ~Past(t)
    BY <1>3, <1>4, Constants DEF Past
  <2>2. Past(t)'
    BY <1>3, <1>4 DEF Past
  <2>3. QED  BY <1>4, <2>1, <2>2
<1>5. CASE t # TopicOrder[n]
  <2>1. Past(t)' <=> Past(t)
    BY <1>2, <1>5 DEF Past
  <2>2. Past(t) \in BOOLEAN /\ Past(t)' \in BOOLEAN
    BY DEF Past
  <2>3. QED  BY <1>5, <2>1, <2>2
<1>6. QED  BY <1>4, <1>5

\* An insert adds a row of versions, or fails; the rest is as it was.
LEMMA InsertedKeeps ==
  ASSUME WriteInv, NEW t \in W!Topic, W!Inserting(t),
         n' = n + 1, failures' \in 0..MaxFailures,
         UNCHANGED <<use, w_queries, pc, buffer, out_buffer, generic_query_indices, w_err,
                     next_version, reply>>,
         version_nums' \in [W!Versioned -> Seq(Nat \X Nat)],
         batch_err' \in [W!Topic -> BOOLEAN],
         \A v \in W!Topic : v # t => batch_err'[v] = batch_err[v],
         \A v \in W!Versioned : v # t => version_nums'[v] = version_nums[v],
         t \in W!Versioned =>
           \A k \in DOMAIN version_nums'[t] : version_nums'[t][k][1] = use,
         t \in W!Versioned /\ ~batch_err'[t] =>
           ~batch_err[t] /\ (version_nums[t] = <<>> => version_nums'[t] = buffer[t])
  PROVE  WriteInv'
<1>1. pc = "database" /\ n \in DOMAIN TopicOrder /\ t = TopicOrder[n]
  BY Typed, Constants DEF W!Inserting, WriteInv
<1>2. n \in Nat /\ n + 1 \in Nat /\ n + 1 >= 1
  BY <1>1, Constants
<1>3. WriteTypes'
  <2>1. W!TypeOK'
    BY DEF WriteInv, WriteTypes, W!TypeOK
  <2>2. Replies'
    BY <1>1 DEF WriteInv, WriteTypes, Replies
  <2>3. QED  BY <1>2, <2>1, <2>2 DEF WriteInv, WriteTypes
<1>4. OfThisUse'
  <2>1. ASSUME NEW v \in W!Versioned, NEW k \in DOMAIN version_nums'[v]
        PROVE  version_nums'[v][k][1] = use
    <3>1. CASE v = t
      BY <2>1, <3>1
    <3>2. CASE v # t
      <4>1. version_nums'[v] = version_nums[v]
        BY <3>2
      <4>2. QED  BY <2>1, <4>1 DEF WriteInv, OfThisUse
    <3>3. QED  BY <3>1, <3>2
  <2>2. \A v \in W!Topic : \A k \in DOMAIN buffer'[v] : buffer'[v][k][1] = use
    BY DEF WriteInv, OfThisUse
  <2>3. QED  BY <2>1, <2>2 DEF OfThisUse
<1>5. OrderInv'
  <2>1. ASSUME W!Clean', NEW v \in W!Topic PROVE RowsInOrder(v)'
    <3>1. RowsInOrder(v)
      BY <1>1, <2>1 DEF WriteInv, OrderInv, W!Clean
    <3>2. \A q : Buffered(q) /\ Buffered(q)'
      BY <1>1 DEF Buffered
    <3>3. QED  BY <3>1, <3>2 DEF RowsInOrder
  <2>2. ASSUME NEW v \in W!Versioned PROVE Returned(v)'
    <3>1. v \in W!Topic /\ Returned(v)
      BY <1>1, Constants DEF WriteInv, OrderInv
    <3>2. CASE v = t
      <4>1. ~Past(t) /\ Past(t)'
        BY <1>1, NextPast
      <4>2. QED  BY <3>1, <3>2, <4>1 DEF Returned
    <3>3. CASE v # t
      <4>1. Past(v)' = Past(v)
        BY <1>1, <3>1, <3>3, NextPast
      <4>2. QED  BY <3>1, <3>3, <4>1 DEF Returned
    <3>4. QED  BY <3>2, <3>3
  <2>3. QED  BY <1>1, <2>1, <2>2 DEF OrderInv
<1>6. QED  BY <1>3, <1>4, <1>5 DEF WriteInv

\* What an insert collects is of this use, and goes to the topic's own versions.
LEMMA VersionsCollected ==
  ASSUME WriteInv, NEW t \in W!Versioned, NEW k \in 0..Len(buffer[t]),
         version_nums' = [version_nums EXCEPT ![t] = @ \o SubSeq(buffer[t], 1, k)]
  PROVE  /\ version_nums' \in [W!Versioned -> Seq(Nat \X Nat)]
         /\ \A v \in W!Versioned : v # t => version_nums'[v] = version_nums[v]
         /\ \A l \in DOMAIN version_nums'[t] : version_nums'[t][l][1] = use
<1> DEFINE S == Nat \X Nat
<1>1. t \in W!Topic
  BY Constants
<1>2. /\ version_nums \in [W!Versioned -> Seq(S)] /\ version_nums[t] \in Seq(S)
      /\ buffer[t] \in Seq(S)
  BY <1>1 DEF WriteInv, WriteTypes
<1> HIDE DEF S
<1>3. PICK s \in Seq(S) : s = version_nums[t]
  BY <1>2
<1>4. PICK b \in Seq(S) : b = buffer[t]
  BY <1>2
<1>5. k \in Nat /\ k <= Len(b)
  BY <1>4
<1>6. \A l \in 1..Len(Collect(s, b, k)) :
        \/ \E h \in 1..Len(s) : Collect(s, b, k)[l] = s[h]
        \/ \E h \in 1..Len(b) : Collect(s, b, k)[l] = b[h]
  BY <1>5, Collected
<1>7. PICK c \in Seq(S) : c = Collect(s, b, k)
  BY <1>5, Collected
<1>8. version_nums' = [version_nums EXCEPT ![t] = c]
  BY <1>3, <1>4, <1>7 DEF Collect
<1>9. /\ version_nums' \in [W!Versioned -> Seq(S)] /\ version_nums'[t] = c
      /\ \A v \in W!Versioned : v # t => version_nums'[v] = version_nums[v]
  BY <1>2, <1>7, <1>8
<1>10. /\ \A h \in DOMAIN s : s[h][1] = use
       /\ \A h \in DOMAIN b : b[h][1] = use
  BY <1>1, <1>3, <1>4 DEF WriteInv, OfThisUse
<1>11. ASSUME NEW l \in DOMAIN c PROVE c[l][1] = use
  <2>1. /\ DOMAIN c = 1..Len(c) /\ DOMAIN s = 1..Len(s) /\ DOMAIN b = 1..Len(b)
    OBVIOUS
  <2>2. l \in 1..Len(c)
    BY <2>1
  <2>3. (\E h \in 1..Len(s) : c[l] = s[h]) \/ (\E h \in 1..Len(b) : c[l] = b[h])
    <3>1. c = Collect(s, b, k) /\ l \in 1..Len(Collect(s, b, k))
      BY <1>7, <2>2
    <3>2. QED  BY <1>6, <3>1
  <2>4. CASE \E h \in 1..Len(s) : c[l] = s[h]
    BY <1>10, <2>1, <2>4
  <2>5. CASE \E h \in 1..Len(b) : c[l] = b[h]
    BY <1>10, <2>1, <2>5
  <2>6. QED  BY <2>3, <2>4, <2>5
<1>12. \A l \in DOMAIN version_nums'[t] : version_nums'[t][l][1] = use
  BY <1>9, <1>11
<1>13. QED  BY <1>9, <1>12 DEF S

\* All of a sequence is its first elements, as many as there are.
LEMMA WholeCollected ==
  ASSUME NEW S, NEW b \in Seq(S)
  PROVE  /\ SubSeq(b, 1, Len(b)) = b /\ Len(b) \in 0..Len(b) /\ <<>> \o b = b
<1>1. Len(b) \in Nat /\ b = [k \in 1..Len(b) |-> b[k]]
  OBVIOUS
<1>2. SubSeq(b, 1, Len(b)) = b /\ Len(b) \in 0..Len(b)
  BY <1>1
<1>3. <<>> \o b = b
  BY ConcatEmptySeq
<1>4. QED  BY <1>2, <1>3

\* An insert that works returns the rows as they are.
LEMMA InsertKeeps == ASSUME WriteInv, NEW t \in W!Topic, W!Insert(t) PROVE WriteInv'
<1>1. /\ W!Inserting(t) /\ n' = n + 1
      /\ UNCHANGED <<use, w_queries, pc, buffer, out_buffer, generic_query_indices, w_err,
                     next_version, reply, batch_err, failures>>
      /\ t \in W!Versioned =>
           version_nums' = [version_nums EXCEPT ![t] = @ \o buffer[t]]
      /\ t \notin W!Versioned => version_nums' = version_nums
  BY DEF W!Insert, W!batch, W!VersionsOf
<1>2. /\ version_nums \in [W!Versioned -> Seq(Nat \X Nat)] /\ buffer[t] \in Seq(Nat \X Nat)
      /\ batch_err \in [W!Topic -> BOOLEAN] /\ failures \in 0..MaxFailures
  BY DEF WriteInv, WriteTypes, W!TypeOK
<1>3. CASE t \in W!Versioned
  <2>1. PICK b \in Seq(Nat \X Nat) : b = buffer[t]
    BY <1>2
  <2>2. SubSeq(b, 1, Len(b)) = b /\ Len(b) \in 0..Len(b) /\ <<>> \o b = b
    BY WholeCollected
  <2>3. version_nums' = [version_nums EXCEPT ![t] = @ \o SubSeq(buffer[t], 1, Len(b))]
    BY <1>1, <1>3, <2>1, <2>2
  <2>4. Len(b) \in 0..Len(buffer[t])
    BY <2>1, <2>2
  <2>5. /\ version_nums' \in [W!Versioned -> Seq(Nat \X Nat)]
        /\ \A v \in W!Versioned : v # t => version_nums'[v] = version_nums[v]
        /\ \A l \in DOMAIN version_nums'[t] : version_nums'[t][l][1] = use
    BY <1>3, <2>3, <2>4, VersionsCollected
  <2>6. ASSUME version_nums[t] = <<>> PROVE version_nums'[t] = buffer[t]
    BY <1>1, <1>2, <1>3, <2>1, <2>2, <2>6
  <2>7. batch_err' = batch_err /\ failures' = failures
    BY <1>1
  <2>8. QED  BY <1>1, <1>2, <2>5, <2>6, <2>7, InsertedKeeps
<1>4. CASE t \notin W!Versioned
  BY <1>1, <1>2, <1>4, InsertedKeeps
<1>5. QED  BY <1>3, <1>4

\* One that fails says so.
LEMMA FailureKeeps == ASSUME WriteInv, NEW t \in W!Topic, W!InsertFails(t) PROVE WriteInv'
<1>1. /\ W!Inserting(t) /\ n' = n + 1 /\ failures < MaxFailures /\ failures' = failures + 1
      /\ batch_err' = [batch_err EXCEPT ![t] = TRUE]
      /\ UNCHANGED <<use, w_queries, pc, buffer, out_buffer, generic_query_indices, w_err,
                     next_version, reply>>
      /\ t \notin W!Versioned => version_nums' = version_nums
  BY DEF W!InsertFails, W!batch
<1>2. /\ version_nums \in [W!Versioned -> Seq(Nat \X Nat)] /\ Len(buffer[t]) \in Nat
      /\ batch_err \in [W!Topic -> BOOLEAN] /\ failures \in 0..MaxFailures
  BY Typed DEF WriteInv, WriteTypes, W!TypeOK
<1>3. failures' \in 0..MaxFailures
  BY <1>1, <1>2, Constants
<1>4. /\ batch_err' \in [W!Topic -> BOOLEAN] /\ batch_err'[t]
      /\ \A v \in W!Topic : v # t => batch_err'[v] = batch_err[v]
  BY <1>1, <1>2
<1>5. CASE t \in W!Versioned
  <2>1. PICK k \in 0..(Len(buffer[t]) - 1) :
          version_nums' = [version_nums EXCEPT ![t] = @ \o SubSeq(buffer[t], 1, k)]
    BY <1>5 DEF W!InsertFails
  <2>2. k \in 0..Len(buffer[t])
    BY <1>2
  <2>3. /\ version_nums' \in [W!Versioned -> Seq(Nat \X Nat)]
        /\ \A v \in W!Versioned : v # t => version_nums'[v] = version_nums[v]
        /\ \A l \in DOMAIN version_nums'[t] : version_nums'[t][l][1] = use
    BY <1>5, <2>1, <2>2, VersionsCollected
  <2>4. QED  BY <1>1, <1>3, <1>4, <2>3, InsertedKeeps
<1>6. CASE t \notin W!Versioned
  BY <1>1, <1>2, <1>3, <1>4, <1>6, InsertedKeeps
<1>7. QED  BY <1>5, <1>6

\* A generic query that fails is its own affair.
LEMMA GenericFailureKeeps == ASSUME WriteInv, W!GenericFails PROVE WriteInv'
<1>1. /\ pc = "database" /\ failures < MaxFailures /\ failures' = failures + 1
      /\ UNCHANGED <<use, w_queries, pc, n, buffer, out_buffer, generic_query_indices,
                     version_nums, batch_err, next_version, reply>>
  BY DEF W!GenericFails, W!batch
<1>2. PICK k \in W!ToSet(generic_query_indices) : w_err' = w_err \cup {k}
  BY DEF W!GenericFails
<1>3. failures' \in 0..MaxFailures
  BY <1>1, Typed, Constants DEF WriteInv
<1>4. k \in DOMAIN w_queries
  BY <1>2 DEF WriteInv, WriteTypes, W!TypeOK
<1>5. W!TypeOK'
  BY <1>1, <1>2, <1>3, <1>4 DEF WriteInv, WriteTypes, W!TypeOK
<1>6. WriteTypes'
  BY <1>1, <1>5 DEF WriteInv, WriteTypes, Replies
<1>7. OfThisUse'
  BY <1>1 DEF WriteInv, OfThisUse
<1>8. OrderInv'
  <2>1. ASSUME W!Clean', NEW t \in W!Topic PROVE RowsInOrder(t)'
    <3>1. RowsInOrder(t)
      BY <1>1, <2>1 DEF WriteInv, OrderInv, W!Clean
    <3>2. QED  BY <1>1, <3>1 DEF RowsInOrder, Buffered
  <2>2. \A t \in W!Versioned : Returned(t)'
    BY <1>1 DEF WriteInv, OrderInv, Returned, Past
  <2>3. QED  BY <1>1, <2>1, <2>2 DEF OrderInv
<1>9. QED  BY <1>6, <1>7, <1>8 DEF WriteInv

\* ResultJob starts at the first query, and at the first version of every topic.
LEMMA ResultsKeep == ASSUME WriteInv, W!PassToResults PROVE WriteInv'
<1>1. /\ pc = "database" /\ n > Len(TopicOrder) /\ pc' = "results" /\ n' = 1
      /\ next_version' = [t \in W!Versioned |-> 1]
      /\ UNCHANGED <<use, w_queries, buffer, out_buffer, generic_query_indices, w_err,
                     version_nums, batch_err, reply, failures>>
  BY DEF W!PassToResults, W!batch
<1>2. reply = <<>> /\ Len(reply) = 0 /\ DOMAIN reply = {}
  BY <1>1 DEF WriteInv, WriteTypes, Replies
<1>3. WriteTypes'
  <2>1. W!TypeOK'
    BY <1>1 DEF WriteInv, WriteTypes, W!TypeOK
  <2>2. Replies'
    BY <1>1, <1>2 DEF Replies
  <2>3. QED  BY <1>1, <2>1, <2>2 DEF WriteInv, WriteTypes
<1>4. OfThisUse'
  BY <1>1 DEF WriteInv, OfThisUse
<1>5. OrderInv'
  <2>1. ASSUME W!Clean', NEW t \in W!Topic PROVE RowsInOrder(t)'
    <3>1. RowsInOrder(t)
      BY <1>1, <2>1 DEF WriteInv, OrderInv, W!Clean
    <3>2. QED  BY <1>1, <3>1 DEF RowsInOrder, Buffered
  <2>2. ASSUME NEW t \in W!Versioned PROVE Returned(t)'
    <3>1. Returned(t) /\ t \in W!ToSet(TopicOrder)
      BY <1>1, Constants DEF WriteInv, OrderInv, W!Topic
    <3>2. PICK k \in DOMAIN TopicOrder : TopicOrder[k] = t
      BY <3>1, Constants, Elements
    <3>3. k < n
      BY <1>1, <3>2, Typed, Constants DEF WriteInv
    <3>4. Past(t) /\ Past(t)'
      BY <1>1, <3>2, <3>3 DEF Past
    <3>5. QED  BY <1>1, <3>1, <3>4 DEF Returned
  <2>3. ASSUME W!Clean', NEW t \in W!Versioned PROVE NextIsNext(t)'
    <3>1. t \in W!Topic
      BY Constants
    <3>2. RowsInOrder(t)'
      BY <2>1, <2>3, <3>1
    <3>3. \A k \in DOMAIN buffer[t] : buffer[t][k][2] \in 1..Len(w_queries)
      BY <1>1, <3>2, Typed DEF RowsInOrder, WriteInv
    <3>4. \A k \in DOMAIN buffer[t] : ~(k < 1)
      BY <3>1, Typed DEF WriteInv
    <3>5. \A k \in DOMAIN buffer[t] : ~(buffer[t][k][2] < 1)
      BY <3>3
    <3>6. next_version'[t] = 1 /\ n' = 1 /\ buffer' = buffer
      BY <1>1
    <3>7. QED  BY <3>4, <3>5, <3>6 DEF NextIsNext
  <2>4. Replied'
    BY <1>1, <1>2 DEF Replied
  <2>5. QED  BY <1>1, <2>1, <2>2, <2>3, <2>4 DEF OrderInv
<1>6. QED  BY <1>3, <1>4, <1>5 DEF WriteInv

\* All the queries have been answered when the batch goes back.
LEMMA RepliesKeep == ASSUME WriteInv, W!PassToReplies PROVE WriteInv'
<1>1. /\ pc = "results" /\ n > Len(w_queries) /\ pc' = "answered"
      /\ UNCHANGED <<use, w_queries, n, buffer, out_buffer, generic_query_indices, w_err,
                     version_nums, batch_err, next_version, reply, failures>>
  BY DEF W!PassToReplies, W!batch
<1>2. Len(reply) = n - 1 /\ Len(reply) <= Len(w_queries)
  BY <1>1 DEF WriteInv, WriteTypes, Replies, W!TypeOK
<1>3. Len(reply) = Len(w_queries)
  BY <1>1, <1>2, Typed DEF WriteInv
<1>4. WriteTypes'
  <2>1. W!TypeOK'
    BY <1>1 DEF WriteInv, WriteTypes, W!TypeOK
  <2>2. Replies'
    BY <1>1, <1>3 DEF Replies
  <2>3. QED  BY <1>1, <2>1, <2>2 DEF WriteInv, WriteTypes
<1>5. OfThisUse'
  BY <1>1 DEF WriteInv, OfThisUse
<1>6. OrderInv'
  <2>1. ASSUME W!Clean', NEW t \in W!Topic PROVE RowsInOrder(t)'
    <3>1. RowsInOrder(t)
      BY <1>1, <2>1 DEF WriteInv, OrderInv, W!Clean
    <3>2. QED  BY <1>1, <3>1 DEF RowsInOrder, Buffered
  <2>2. \A t \in W!Versioned : Returned(t)'
    BY <1>1 DEF WriteInv, OrderInv, Returned, Past
  <2>3. ASSUME W!Clean', W!FailsWhole' PROVE Replied'
    <3>1. W!Clean /\ W!FailsWhole
      BY <1>1, <2>3 DEF W!Clean, W!FailsWhole
    <3>2. Replied
      BY <1>1, <3>1 DEF WriteInv, OrderInv
    <3>3. QED  BY <1>1, <3>2 DEF Replied, W!Row
  <2>4. QED  BY <1>1, <2>1, <2>2, <2>3 DEF OrderInv
<1>7. QED  BY <1>4, <1>5, <1>6 DEF WriteInv

\* What ResultJob has done when it has answered a query.
LEMMA QueryAnswered ==
  ASSUME WriteInv, W!AnswerQuery
  PROVE  /\ pc = "results" /\ n \in 1..Len(w_queries) /\ n \in DOMAIN w_queries
         /\ n' = n + 1 /\ pc' = pc
         /\ UNCHANGED <<use, w_queries, buffer, out_buffer, generic_query_indices, w_err,
                        version_nums, batch_err, failures>>
         /\ Len(reply) = n - 1 /\ reply' = Append(reply, W!Reply(n, w_queries[n].topic))
         /\ IF w_queries[n].topic \in W!Versioned /\ W!Ok(w_queries[n].topic)
            THEN next_version' = [next_version EXCEPT ![w_queries[n].topic] = @ + 1]
            ELSE next_version' = next_version
BY Typed DEF W!AnswerQuery, W!TakeVersion, W!batch, WriteInv, WriteTypes, Replies

\* A reply is a refusal, a success, or a version number.
LEMMA ReplyTyped ==
  ASSUME WriteInv, NEW k, NEW t \in W!Topic \cup {"generic", "unknown"}
  PROVE  W!Reply(k, t) \in ReplyType
<1>1. CASE t = "generic"
  <2>1. t \notin W!Versioned /\ t # "alarm"
    BY <1>1, Constants
  <2>2. W!Reply(k, t) = [ok |-> k \notin w_err, version |-> "none"]
    BY <1>1, <2>1 DEF W!Reply
  <2>3. (k \notin w_err) \in BOOLEAN
    OBVIOUS
  <2>4. QED  BY <2>2, <2>3 DEF ReplyType, VersionType
<1>2. CASE t = "alarm"
  <2>1. W!Ok(t) \in BOOLEAN
    BY <1>2, Typed, Constants DEF W!Ok, WriteInv
  <2>2. W!Reply(k, t) = [ok |-> W!Ok(t), version |-> "none"]
    <3>1. t \notin W!Versioned /\ t # "generic"
      BY <1>2, Constants
    <3>2. QED  BY <1>2, <3>1 DEF W!Reply
  <2>3. QED  BY <2>1, <2>2 DEF ReplyType, VersionType
<1>3. CASE t \in W!Versioned
  <2>1. t # "alarm" /\ t # "generic"
    BY <1>3, Constants
  <2>2. W!Version(t) \in VersionType
    <3>1. /\ version_nums[t] \in Seq(Nat \X Nat) /\ next_version[t] \in Nat
          /\ next_version[t] >= 1
      BY <1>3 DEF WriteInv, WriteTypes
    <3>2. CASE next_version[t] <= Len(version_nums[t])
      <4>1. version_nums[t][next_version[t]] \in Nat \X Nat
        BY <3>1, <3>2
      <4>2. QED  BY <3>2, <4>1 DEF W!Version, VersionType
    <3>3. CASE ~(next_version[t] <= Len(version_nums[t]))
      BY <3>3 DEF W!Version, VersionType
    <3>4. QED  BY <3>2, <3>3
  <2>3. W!Reply(k, t) = IF W!Ok(t) THEN [ok |-> TRUE, version |-> W!Version(t)] ELSE W!NoReply
    BY <1>3, <2>1 DEF W!Reply
  <2>4. W!NoReply \in ReplyType
    BY DEF W!NoReply, ReplyType, VersionType
  <2>5. [ok |-> TRUE, version |-> W!Version(t)] \in ReplyType
    BY <2>2 DEF ReplyType
  <2>6. QED  BY <2>3, <2>4, <2>5
<1>4. CASE t # "generic" /\ t # "alarm" /\ t \notin W!Versioned
  BY <1>4 DEF W!Reply, W!NoReply, ReplyType, VersionType
<1>5. QED  BY <1>1, <1>2, <1>3, <1>4

\* The next version number of the topic of a query whose insert worked is its own:
\* the rows are in the order of the queries, so the next row is the first that is not
\* of a query before.
LEMMA VersionIsOwn ==
  ASSUME WriteInv, pc = "results", W!Clean, W!FailsWhole, n \in DOMAIN w_queries,
         NEW t \in W!Versioned, w_queries[n].topic = t, ~batch_err[t]
  PROVE  /\ next_version[t] \in DOMAIN buffer[t] /\ buffer[t][next_version[t]][2] = n
         /\ W!Ok(t) /\ W!Version(t) = <<use, n>>
<1>1. /\ t \in W!Topic /\ t # "alarm" /\ n \in Nat
      /\ next_version[t] \in Nat /\ next_version[t] >= 1
      /\ DOMAIN buffer[t] = 1..Len(buffer[t]) /\ Len(buffer[t]) \in Nat
      /\ \A k \in DOMAIN buffer[t] : buffer[t][k] \in (1..use) \X (1..MaxWrites)
  BY Typed, Constants DEF WriteInv, WriteTypes
<1>2. RowsInOrder(t) /\ Returned(t) /\ NextIsNext(t)
  BY <1>1 DEF WriteInv, OrderInv
<1>3. version_nums[t] = buffer[t]
  BY <1>2 DEF Returned, Past
<1>4. PICK k \in DOMAIN buffer[t] : buffer[t][k][2] = n
  BY <1>2 DEF RowsInOrder, Buffered
<1>5. \A l \in DOMAIN buffer[t] : l < next_version[t] <=> buffer[t][l][2] < n
  BY <1>2 DEF NextIsNext
<1>6. \A l \in DOMAIN buffer[t] : l < k => buffer[t][l][2] < n
  BY <1>2, <1>4 DEF RowsInOrder
<1>7. k = next_version[t]
  <2>1. ~(k < next_version[t])
    BY <1>1, <1>4, <1>5
  <2>2. CASE k > next_version[t]
    <3>1. next_version[t] \in DOMAIN buffer[t] /\ next_version[t] < k
      BY <1>1, <1>4, <2>2
    <3>2. buffer[t][next_version[t]][2] < n
      BY <1>6, <3>1
    <3>3. next_version[t] < next_version[t]
      BY <1>5, <3>1, <3>2
    <3>4. QED  BY <1>1, <3>3
  <2>3. QED  BY <1>1, <1>4, <2>1, <2>2
<1>8. buffer[t][k] = <<use, n>>
  <2>1. buffer[t][k][1] = use
    BY <1>1 DEF WriteInv, OfThisUse
  <2>2. QED  BY <1>1, <1>4, <2>1
<1>9. W!Ok(t)
  BY <1>1, <1>3, <1>4 DEF W!Ok
<1>10. W!Version(t) = <<use, n>>
  BY <1>1, <1>3, <1>4, <1>7, <1>8 DEF W!Version
<1>11. QED  BY <1>4, <1>7, <1>9, <1>10

\* An answer takes the next version number of its topic, and of no other.
LEMMA AnswerKeeps == ASSUME WriteInv, W!AnswerQuery PROVE WriteInv'
<1>0. PICK t : t = w_queries[n].topic
  OBVIOUS
<1>1. /\ pc = "results" /\ n \in 1..Len(w_queries) /\ n \in DOMAIN w_queries
      /\ n' = n + 1 /\ pc' = pc
      /\ UNCHANGED <<use, w_queries, buffer, out_buffer, generic_query_indices, w_err,
                     version_nums, batch_err, failures>>
      /\ Len(reply) = n - 1 /\ reply' = Append(reply, W!Reply(n, t))
      /\ IF t \in W!Versioned /\ W!Ok(t)
         THEN next_version' = [next_version EXCEPT ![t] = @ + 1]
         ELSE next_version' = next_version
  BY <1>0, QueryAnswered
<1>2. n \in Nat /\ n >= 1 /\ n + 1 \in Nat /\ n + 1 >= 1 /\ Len(w_queries) \in Nat
  BY <1>1, Typed DEF WriteInv
<1>3. W!Reply(n, t) \in ReplyType
  BY <1>0, <1>1, ReplyTyped, Typed, Constants DEF WriteInv
<1>4. /\ reply \in Seq(ReplyType) /\ reply' \in Seq(ReplyType) /\ Len(reply') = n
      /\ DOMAIN reply' = 1..n /\ reply'[n] = W!Reply(n, t)
      /\ \A k \in 1..(n - 1) : reply'[k] = reply[k]
  <2>1. PICK r \in ReplyType : r = W!Reply(n, t)
    BY <1>3
  <2>2. reply \in Seq(ReplyType)
    BY DEF WriteInv, WriteTypes
  <2>3. QED  BY <1>1, <1>2, <2>1, <2>2
<1>5. next_version' \in [W!Versioned -> Nat] /\ \A v \in W!Versioned : next_version'[v] >= 1
  <2>1. next_version \in [W!Versioned -> Nat] /\ \A v \in W!Versioned : next_version[v] >= 1
    BY DEF WriteInv, WriteTypes
  <2>2. CASE t \in W!Versioned /\ next_version' = [next_version EXCEPT ![t] = @ + 1]
    <3>1. next_version[t] + 1 \in Nat /\ next_version[t] + 1 >= 1
      BY <2>1, <2>2
    <3>2. QED  BY <2>1, <2>2, <3>1
  <2>3. CASE next_version' = next_version
    BY <2>1, <2>3
  <2>4. QED  BY <1>1, <2>2, <2>3
<1>6. WriteTypes'
  <2>1. Len(reply') <= Len(w_queries)
    BY <1>1, <1>2, <1>4
  <2>2. W!TypeOK'
    BY <1>1, <2>1 DEF WriteInv, WriteTypes, W!TypeOK
  <2>3. Replies'
    BY <1>1, <1>2, <1>4 DEF Replies
  <2>4. QED  BY <1>1, <1>2, <1>4, <1>5, <2>2, <2>3 DEF WriteInv, WriteTypes
<1>7. OfThisUse'
  BY <1>1 DEF WriteInv, OfThisUse
<1>8. ASSUME W!Clean, NEW v \in W!Topic PROVE RowsInOrder(v) /\ RowsInOrder(v)'
  <2>1. RowsInOrder(v)
    BY <1>1, <1>8 DEF WriteInv, OrderInv
  <2>2. QED  BY <1>1, <2>1 DEF RowsInOrder, Buffered
<1>9. ASSUME W!Clean, W!FailsWhole, NEW v \in W!Versioned PROVE NextIsNext(v)'
  <2>1. v \in W!Topic /\ NextIsNext(v) /\ RowsInOrder(v)
    BY <1>1, <1>8, <1>9, Constants DEF WriteInv, OrderInv
  <2>2. SUFFICES ASSUME ~batch_err[v], NEW k \in DOMAIN buffer[v]
                 PROVE  k < next_version'[v] <=> buffer[v][k][2] < n + 1
    BY <1>1 DEF NextIsNext
  <2>3. k < next_version[v] <=> buffer[v][k][2] < n
    BY <2>1, <2>2 DEF NextIsNext
  <2>4. /\ k \in Nat /\ buffer[v][k][2] \in Nat /\ next_version[v] \in Nat
    <3>1. DOMAIN buffer[v] = 1..Len(buffer[v]) /\ buffer[v][k] \in (1..use) \X (1..MaxWrites)
      BY <2>1, <2>2, Typed DEF WriteInv
    <3>2. k \in Nat /\ buffer[v][k][2] \in Nat
      BY <2>2, <3>1
    <3>3. next_version[v] \in Nat
      BY DEF WriteInv, WriteTypes
    <3>4. QED  BY <3>2, <3>3
  <2>5. CASE v = t
    <3>1. /\ next_version[v] \in DOMAIN buffer[v] /\ buffer[v][next_version[v]][2] = n /\ W!Ok(v)
      BY <1>0, <1>1, <1>9, <2>2, <2>5, VersionIsOwn
    <3>2. next_version'[v] = next_version[v] + 1
      BY <1>1, <2>5, <3>1 DEF WriteInv, WriteTypes
    <3>3. next_version[v] < k => n < buffer[v][k][2]
      BY <2>1, <2>2, <3>1 DEF RowsInOrder
    <3>4. QED  BY <1>2, <2>3, <2>4, <3>1, <3>2, <3>3
  <2>6. CASE v # t
    <3>1. next_version'[v] = next_version[v]
      BY <1>1, <2>6 DEF WriteInv, WriteTypes
    <3>2. w_queries[buffer[v][k][2]].topic = v
      BY <2>1, <2>2 DEF RowsInOrder
    <3>3. buffer[v][k][2] # n
      BY <1>0, <2>6, <3>2
    <3>4. QED  BY <1>2, <2>3, <2>4, <3>1, <3>3
  <2>7. QED  BY <2>5, <2>6
<1>10. ASSUME W!Clean, W!FailsWhole PROVE Replied'
  <2>1. Replied
    BY <1>1, <1>10 DEF WriteInv, OrderInv
  <2>2. ASSUME NEW k \in DOMAIN reply', w_queries[k].topic \in W!Versioned
        PROVE  reply'[k] = IF batch_err[w_queries[k].topic] THEN W!NoReply
                           ELSE [ok |-> TRUE, version |-> <<use, k>>]
    <3>1. CASE k \in 1..(n - 1)
      <4>1. k \in DOMAIN reply /\ reply'[k] = reply[k]
        BY <1>1, <1>4, <3>1, Typed DEF WriteInv
      <4>2. QED  BY <2>1, <2>2, <4>1 DEF Replied, W!Row
    <3>2. CASE k = n
      <4>1. t \in W!Versioned /\ t \in W!Topic /\ t # "alarm" /\ t # "generic"
        BY <1>0, <2>2, <3>2, Constants
      <4>2. W!Reply(n, t) = IF W!Ok(t) THEN [ok |-> TRUE, version |-> W!Version(t)]
                            ELSE W!NoReply
        BY <4>1 DEF W!Reply
      <4>3. CASE batch_err[t]
        <5>1. ~W!Ok(t)
          BY <1>10, <4>1, <4>3 DEF W!FailsWhole, W!Ok
        <5>2. QED  BY <1>0, <1>4, <3>2, <4>2, <4>3, <5>1
      <4>4. CASE ~batch_err[t]
        <5>1. W!Ok(t) /\ W!Version(t) = <<use, n>>
          BY <1>0, <1>1, <1>10, <4>1, <4>4, VersionIsOwn
        <5>2. QED  BY <1>0, <1>4, <3>2, <4>2, <4>4, <5>1
      <4>5. QED  BY <4>3, <4>4
    <3>3. QED  BY <1>2, <1>4, <2>2, <3>1, <3>2
  <2>3. QED  BY <1>1, <2>2 DEF Replied, W!Row, W!NoReply
<1>11. OrderInv'
  <2>1. W!Clean' => W!Clean
    BY <1>1 DEF W!Clean
  <2>2. W!FailsWhole' => W!FailsWhole
    BY <1>1 DEF W!FailsWhole
  <2>3. \A v \in W!Versioned : Returned(v)'
    BY <1>1 DEF WriteInv, OrderInv, Returned, Past
  <2>4. QED  BY <1>1, <1>8, <1>9, <1>10, <2>1, <2>2, <2>3 DEF OrderInv
<1>12. QED  BY <1>6, <1>7, <1>11 DEF WriteInv

\* Every step of the jobs, and one of nobody's, keeps it so.
LEMMA WritesInductive == ASSUME WriteInv, W!Next \/ UNCHANGED writevars PROVE WriteInv'
<1>1. CASE W!Next
  BY <1>1, StartKeeps, FlagKeeps, GenericKeeps, AppendKeeps, DatabaseKeeps, InsertKeeps,
     FailureKeeps, GenericFailureKeeps, ResultsKeep, AnswerKeeps, RepliesKeep DEF W!Next
<1>2. CASE UNCHANGED writevars
  <2>1. UNCHANGED <<use, w_queries, pc, n, buffer, out_buffer, generic_query_indices,
                    version_nums, batch_err, w_err, next_version, reply, failures>>
    BY <1>2 DEF writevars
  <2>2. WriteTypes'
    BY <2>1 DEF WriteInv, WriteTypes, W!TypeOK, Replies
  <2>3. OfThisUse'
    BY <2>1 DEF WriteInv, OfThisUse
  <2>4. ASSUME NEW t PROVE /\ RowsInOrder(t) => RowsInOrder(t)'
                           /\ Returned(t) => Returned(t)'
                           /\ NextIsNext(t) => NextIsNext(t)'
    BY <2>1 DEF RowsInOrder, Buffered, Returned, Past, NextIsNext
  <2>5. (W!Clean' => W!Clean) /\ (W!FailsWhole' => W!FailsWhole)
    BY <2>1 DEF W!Clean, W!FailsWhole
  <2>6. Replied => Replied'
    BY <2>1 DEF Replied, W!Row
  <2>7. OrderInv'
    BY <2>1, <2>4, <2>5, <2>6 DEF WriteInv, OrderInv
  <2>8. QED  BY <2>2, <2>3, <2>7 DEF WriteInv
<1>3. QED  BY <1>1, <1>2

-----------------------------------------------------------------------------
(* A batch of either kind.                                                 *)

BatchInv == is_read \in BOOLEAN /\ AnswerInv /\ WriteInv

\* The invariants of the two batches hold at first, and are kept by every step.
LEMMA BatchInitially == BatchInit => BatchInv
BY AnswersInitially, WritesInitially DEF BatchInit, BatchInv, WriteInv

LEMMA BatchInductive ==
  BatchInv /\ [BatchNext]_<<is_read, allvars, writevars>> => BatchInv'
<1> SUFFICES ASSUME BatchInv, [BatchNext]_<<is_read, allvars, writevars>> PROVE BatchInv'
  OBVIOUS
<1>1. /\ is_read' = is_read
      /\ AnswerNext \/ UNCHANGED allvars
      /\ W!Next \/ UNCHANGED writevars
  BY DEF BatchNext
<1>2. AnswerInv'
  BY <1>1, AnswersInductive DEF BatchInv
<1>3. WriteInv'
  BY <1>1, WritesInductive DEF BatchInv
<1>4. QED  BY <1>1, <1>2, <1>3 DEF BatchInv

\* What is in a batch, and what ResultJob makes of it, has its type.
THEOREM BatchTypeCorrect == BatchSpec => []BatchTypeOK
<1>1. BatchInv => BatchTypeOK
  BY DEF BatchInv, AnswerInv, WriteInv, WriteTypes, BatchTypeOK
<1>2. QED  BY <1>1, BatchInitially, BatchInductive, PTL DEF BatchSpec

\* ResultJob gives every query of a batch the version number of its own row, or
\* refuses it when the insert failed, for any number of topics and queries.
THEOREM VersionsAreOwn == BatchSpec => []OwnVersion
<1>1. ASSUME BatchInv PROVE OwnVersion
  <2>1. SUFFICES ASSUME pc = "answered", W!Clean, W!FailsWhole,
                        NEW k \in DOMAIN w_queries, w_queries[k].topic \in W!Versioned
                 PROVE  reply[k] = IF batch_err[w_queries[k].topic] THEN W!NoReply
                                   ELSE [ok |-> TRUE, version |-> W!Row(k)]
    BY DEF OwnVersion, W!OwnVersion, W!Answered
  <2>2. k \in DOMAIN reply
    BY <1>1, <2>1, Typed DEF BatchInv, WriteInv, WriteTypes, Replies
  <2>3. Replied
    BY <1>1, <2>1 DEF BatchInv, WriteInv, OrderInv
  <2>4. QED  BY <2>1, <2>2, <2>3 DEF Replied
<1>2. QED  BY <1>1, BatchInitially, BatchInductive, PTL DEF BatchSpec

\* A row or a version number that an earlier use left in the batch is never inserted
\* or dealt out.
THEOREM UsesAreApart == BatchSpec => []NothingFromBefore
<1>1. ASSUME BatchInv PROVE NothingFromBefore
  <2>1. ASSUME NEW t \in W!Topic, NEW r \in W!ToSet(buffer[t]) PROVE r[1] = use
    <3>1. PICK k \in DOMAIN buffer[t] : r = buffer[t][k]
      BY <2>1 DEF W!ToSet
    <3>2. QED  BY <1>1, <3>1 DEF BatchInv, WriteInv, OfThisUse
  <2>2. ASSUME NEW t \in W!Versioned, NEW r \in W!ToSet(version_nums[t]) PROVE r[1] = use
    <3>1. PICK k \in DOMAIN version_nums[t] : r = version_nums[t][k]
      BY <2>2 DEF W!ToSet
    <3>2. QED  BY <1>1, <3>1 DEF BatchInv, WriteInv, OfThisUse
  <2>3. QED  BY <2>1, <2>2 DEF NothingFromBefore, W!NothingFromBefore
<1>2. QED  BY <1>1, BatchInitially, BatchInductive, PTL DEF BatchSpec

\* As long as no swap of the cached configurations crosses a lookup, a device that is
\* told of success is given one, however often they were swapped before.
THEOREM CachedAnswersAreWhole == BatchSpec => []CachedAnswerIsWhole
<1>1. BatchInv => CachedAnswerIsWhole
  BY DEF BatchInv, AnswerInv
<1>2. QED  BY <1>1, BatchInitially, BatchInductive, PTL DEF BatchSpec

\* Nor do the answers change it: no read query of the batch is given the rows of
\* another while ResultJob and slow control go about theirs.
THEOREM AnsweredResultsAreOwn == BatchSpec => []ResultIsOwn
<1>1. BatchInv => ResultIsOwn
  BY DEF BatchInv, AnswerInv, ReadInv
<1>2. QED  BY <1>1, BatchInitially, BatchInductive, PTL DEF BatchSpec
=============================================================================
