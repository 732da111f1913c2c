------------------------------ MODULE ReadAnswer ------------------------------
(***************************************************************************)
(* The answers to a batch of read queries: ResultWorkers::ResultJob, after *)
(* the DatabaseJob of ReadJob.  A query for a cached configuration is      *)
(* answered from cached_configs, which CacheConfigs replaces when slow     *)
(* control says so, in its own thread.  No lock is taken by either.        *)
(*                                                                         *)
(* A lookup looks twice, with count() and with operator[], and the latter  *)
(* leaves an empty configuration where it finds none.                      *)
(*                                                                         *)
(* An operator named Bug... is what a plausible mistake would make of the  *)
(* definition after it; nothing uses it.                                   *)
(***************************************************************************)
EXTENDS ReadJob

CONSTANTS
  Device,     \* the devices clients ask for
  MaxSwaps    \* bounds the calls of CacheConfigs

ASSUME ReadAnswerAssumption == MaxSwaps \in Nat

VARIABLES
  cached_configs,   \* the map: a device's entry is {c}, made by call c, or empty
  config_ids,       \* the call whose ids are remembered
  swaps,            \* calls of CacheConfigs so far
  looking,          \* {[device, since]}, whose entry count() found, and when; or none
  undefined,        \* what follows is
  crossed,          \* the map was ever swapped during a lookup
  answers           \* [ok, rows] for each query answered; rows says whose

cache == <<cached_configs, config_ids, swaps, crossed>>
avars == <<cache, looking, undefined, answers>>
allvars == <<vars, avars>>

AnswerInit ==
  /\ Init
  /\ cached_configs = <<>>
  /\ config_ids = 0 /\ swaps = 0
  /\ looking = {} /\ undefined = FALSE /\ crossed = FALSE
  /\ answers = <<>>

-----------------------------------------------------------------------------
(* ResultJob.                                                              *)

K == Len(answers) + 1
Answering == phase = "done" /\ K <= N /\ looking = {} /\ ~undefined
Answer(a) == answers' = Append(answers, a)
Refusal == [ok |-> FALSE, rows |-> {}]

\* count()
BugNotCounted(d) == TRUE
Counted(d) == d \in DOMAIN cached_configs

CountConfig(d) ==
  /\ Answering
  /\ queries[K] = "cached"
  /\ \/ /\ Counted(d)
        /\ looking' = {[device |-> d, since |-> swaps]}
        /\ UNCHANGED answers
     \/ /\ ~Counted(d)
        /\ Answer(Refusal)
        /\ UNCHANGED looking
  /\ UNCHANGED <<vars, cache, undefined>>

\* operator[]
Entry(d) == IF d \in DOMAIN cached_configs THEN cached_configs[d] ELSE {}

TakeConfig(d) ==
  /\ \E l \in looking : l.device = d
  /\ cached_configs' = [e \in DOMAIN cached_configs \cup {d} |-> Entry(e)]
  /\ Answer([ok |-> TRUE, rows |-> Entry(d)])
  /\ looking' = {}
  /\ UNCHANGED <<vars, config_ids, swaps, crossed, undefined>>

\* A lookup in a map that is swapped, and then freed, is undefined.
LookupUndefined ==
  /\ \E l \in looking : l.since # swaps
  /\ undefined' = TRUE /\ looking' = {}
  /\ UNCHANGED <<vars, cache, answers>>

\* A query with an error, or a result that cannot be accessed, is refused.
AnswerQuery ==
  /\ Answering
  /\ queries[K] # "cached"
  /\ \/ Answer(Refusal)
     \/ K \notin err /\ Answer([ok |-> TRUE, rows |-> {result[K]} \ {0}])
  /\ UNCHANGED <<vars, cache, looking, undefined>>

-----------------------------------------------------------------------------
(* CacheConfigs, for ids that are in the database.                         *)

CacheConfigs ==
  /\ swaps < MaxSwaps
  /\ config_ids = swaps
  /\ \E ds \in SUBSET Device : cached_configs' = [d \in ds |-> {swaps + 1}]
  /\ swaps' = swaps + 1
  /\ crossed' = (crossed \/ looking # {})
  /\ UNCHANGED <<vars, config_ids, looking, undefined, answers>>

SetIds ==
  /\ config_ids < swaps
  /\ config_ids' = swaps
  /\ UNCHANGED <<vars, cached_configs, swaps, crossed, looking, undefined, answers>>

\* A step of a thread of the workers.
WorkerNext ==
  \/ Next /\ UNCHANGED avars
  \/ \E d \in Device : CountConfig(d) \/ TakeConfig(d)
  \/ LookupUndefined \/ AnswerQuery

AnswerNext == WorkerNext \/ CacheConfigs \/ SetIds

AnswerSpec == AnswerInit /\ [][AnswerNext]_allvars /\ WF_allvars(WorkerNext)

-----------------------------------------------------------------------------
AnswerTypeOK ==
  /\ TypeOK
  /\ DOMAIN cached_configs \subseteq Device
  /\ \A d \in DOMAIN cached_configs : cached_configs[d] \subseteq 1..swaps
  /\ config_ids \in 0..swaps /\ swaps \in 0..MaxSwaps
  /\ looking \subseteq [device : Device, since : 0..swaps]
  /\ crossed \in BOOLEAN /\ undefined \in BOOLEAN
  /\ Len(answers) <= N
  /\ \A k \in DOMAIN answers : answers[k] \in [ok : BOOLEAN, rows : SUBSET Nat]

\* A device that is told of success is given a configuration, one that was cached, and
\* not the empty string operator[] makes; unless CacheConfigs came between the two
\* looks of a lookup, this one or an earlier one.
CachedAnswerIsWhole ==
  \/ crossed
  \/ /\ \A d \in DOMAIN cached_configs : cached_configs[d] # {}
     /\ \A k \in DOMAIN answers :
          queries[k] = "cached" /\ answers[k].ok => answers[k].rows # {}

\* A round that fails is not repeated for ever, and every query is answered.
EveryBatchIsAnswered == <>(undefined \/ (phase = "done" /\ Len(answers) = N))
=============================================================================
