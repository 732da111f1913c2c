-------------------------- MODULE MulticastPathProofs --------------------------
(***************************************************************************)
(* What a buffer holds, who has it, and where a message is.                *)
(*                                                                         *)
(* A receiver takes a buffer that nobody has (OwnerInv), so what a job     *)
(* finds in its own is what one receiver put there, and the batches it     *)
(* makes are parts of it.  A message is then still to come, in one place   *)
(* of one buffer, in a batch of its topic at that place, in one place of   *)
(* the topic's queue, or inserted (PlaceInv): so it is inserted once, and  *)
(* only the failing job that has it can lose it.                           *)
(*                                                                         *)
(* What is sent is older than what is about to be, that than what waits,   *)
(* and that than what is still to be published (OutInv): a restart only    *)
(* takes from the middle.                                                  *)
(***************************************************************************)
EXTENDS MulticastPath, SequenceTheorems, FiniteSetTheorems, TLAPS

-----------------------------------------------------------------------------
(* The receivers send.                                                     *)

\* s decreases from its place i on.
Falls(s, i) == \A n, k \in DOMAIN s : i < n /\ n < k => s[n] > s[k]

\* All that is in t from its place k on is older than all there is in s from i on, or
\* than x.
Older(t, k, s, i) == \A n \in DOMAIN t, l \in DOMAIN s : k < n /\ i < l => t[n] > s[l]
Past(t, k, x) == \A n \in DOMAIN t : k < n => t[n] > x

\* One receiver's queues in order.
InOrder(published, waiting, sending, i, gone) ==
  /\ Falls(gone, 0) /\ Falls(sending, i) /\ Falls(waiting, 0)
  /\ Older(gone, 0, sending, i) /\ Older(gone, 0, waiting, 0) /\ Older(sending, i, waiting, 0)
  /\ Past(gone, 0, published) /\ Past(sending, i, published) /\ Past(waiting, 0, published)

\* What appending does to a sequence's places.
LEMMA AppendedPlaces ==
  ASSUME NEW S, NEW w \in Seq(S), NEW x \in S
  PROVE  /\ Append(w, x) \in Seq(S) /\ Len(w) \in Nat
         /\ DOMAIN Append(w, x) = DOMAIN w \cup {Len(w) + 1}
         /\ \A k \in DOMAIN w : /\ k \in Nat \ {0} /\ k < Len(w) + 1
                               /\ w[k] \in S /\ Append(w, x)[k] = w[k]
         /\ Append(w, x)[Len(w) + 1] = x
<1>1. /\ Append(w, x) \in Seq(S) /\ Len(Append(w, x)) = Len(w) + 1
      /\ \A k \in 1..Len(w) : Append(w, x)[k] = w[k]
      /\ Append(w, x)[Len(w) + 1] = x
  BY AppendProperties
<1>2. /\ Len(w) \in Nat /\ DOMAIN w = 1..Len(w)
      /\ DOMAIN Append(w, x) = 1..(Len(w) + 1)
  BY <1>1, LenProperties
<1>3. \A k \in DOMAIN w : w[k] \in S
  OBVIOUS
<1>4. QED  BY <1>1, <1>2, <1>3

\* A younger element may be appended.
LEMMA AppendYounger ==
  ASSUME NEW w \in Seq(Nat), NEW i \in Nat, NEW x \in Nat, Past(w, i, x)
  PROVE  /\ Falls(w, i) => Falls(Append(w, x), i)
         /\ \A t, k : Past(t, k, x) /\ Older(t, k, w, i) => Older(t, k, Append(w, x), i)
         /\ \A y \in Nat : Past(w, i, y) /\ x > y => Past(Append(w, x), i, y)
         /\ \A t, k : Older(w, i, t, k) /\ (\A l \in DOMAIN t : k < l => x > t[l])
                       => Older(Append(w, x), i, t, k)
<1> DEFINE v == Append(w, x)
           e == Len(w) + 1
<1>1. /\ e \in Nat /\ DOMAIN v = DOMAIN w \cup {e} /\ v[e] = x
      /\ \A k \in DOMAIN w : k \in Nat /\ k < e /\ w[k] \in Nat /\ v[k] = w[k]
  BY AppendedPlaces
<1>2. \A n \in DOMAIN w : i < n => w[n] > x
  BY DEF Past
<1> HIDE DEF v, e
<1>3. Falls(w, i) => Falls(v, i)
  BY <1>1, <1>2 DEF Falls
<1>4. \A t, k : Past(t, k, x) /\ Older(t, k, w, i) => Older(t, k, v, i)
  BY <1>1 DEF Past, Older
<1>5. \A y \in Nat : Past(w, i, y) /\ x > y => Past(v, i, y)
  BY <1>1 DEF Past
<1>6. \A t, k : Older(w, i, t, k) /\ (\A l \in DOMAIN t : k < l => x > t[l])
               => Older(v, i, t, k)
  BY <1>1 DEF Older
<1>7. QED  BY <1>3, <1>4, <1>5, <1>6 DEF v

LEMMA SendOrder ==
  ASSUME NEW p \in Nat, NEW w \in Seq(Nat), NEW s \in Seq(Nat), NEW i \in Nat,
         NEW g \in Seq(Nat), InOrder(p, w, s, i, g), i < Len(s)
  PROVE  /\ InOrder(p, w, s, i + 1, g)
         /\ InOrder(p, w, s, i + 1, Append(g, s[i + 1]))
<1> DEFINE x == s[i + 1]
<1>1. /\ i + 1 \in DOMAIN s /\ x \in Nat
      /\ \A k \in DOMAIN s : k \in Nat /\ (i + 1 < k => i < k)
  BY LenProperties
<1>2. InOrder(p, w, s, i + 1, g)
  BY <1>1 DEF InOrder, Falls, Older, Past
<1>3. /\ Past(g, 0, x) /\ x > p
      /\ \A l \in DOMAIN s : i + 1 < l => x > s[l]
      /\ \A l \in DOMAIN w : 0 < l => x > w[l]
  BY <1>1 DEF InOrder, Falls, Older, Past
<1> HIDE DEF x
<1>4. InOrder(p, w, s, i + 1, Append(g, x))
  BY <1>1, <1>2, <1>3, AppendYounger DEF InOrder
<1>5. QED  BY <1>2, <1>4 DEF x

LEMMA FetchOrder ==
  ASSUME NEW p \in Nat, NEW w \in Seq(Nat), NEW s \in Seq(Nat), NEW i \in Nat,
         NEW g \in Seq(Nat), InOrder(p, w, s, i, g)
  PROVE  InOrder(p, <<>>, w, 0, g) /\ InOrder(p, <<>>, s, i, g)
BY DEF InOrder, Falls, Older, Past

LEMMA PublishOrder ==
  ASSUME NEW p \in Nat, NEW w \in Seq(Nat), NEW s \in Seq(Nat), NEW i \in Nat,
         NEW g \in Seq(Nat), InOrder(p, w, s, i, g), p > 0
  PROVE  InOrder(p - 1, Append(w, p), s, i, g)
<1>1. p - 1 \in Nat /\ p > p - 1
  OBVIOUS
<1>2. \A t \in Seq(Nat) : \A k : Past(t, k, p) => Past(t, k, p - 1)
  BY DEF Past
<1>3. QED  BY <1>1, <1>2, AppendYounger DEF InOrder

OutTypes ==
  /\ to_publish \in [Receiver -> Nat]
  /\ out_queue \in [Receiver -> Seq(Nat)] /\ out_local_queue \in [Receiver -> Seq(Nat)]
  /\ out_i \in [Receiver -> Nat] /\ sent \in [Receiver -> Seq(Nat)]
  /\ \A r \in Receiver : out_i[r] <= Len(out_local_queue[r])

OutInv ==
  /\ OutTypes
  /\ \A r \in Receiver :
       InOrder(to_publish[r], out_queue[r], out_local_queue[r], out_i[r], sent[r])

\* Only the receiver's own thread, its restart and who publishes by it touch them.
LEMMA OutInductive == ASSUME OutInv, [Next]_vars PROVE OutInv'
<1> USE DEF OutTypes
<1>1. CASE UNCHANGED outgoing
  BY <1>1 DEF OutInv, outgoing
<1>2. ASSUME NEW r \in Receiver, Send(r) PROVE OutInv'
  <2>1. /\ out_i[r] < Len(out_local_queue[r]) /\ out_i' = [out_i EXCEPT ![r] = out_i[r] + 1]
        /\ UNCHANGED <<to_publish, out_queue, out_local_queue>>
    BY <1>2 DEF Send
  <2> DEFINE more == Append(sent[r], out_local_queue[r][out_i[r] + 1])
  <2>2. sent' = sent \/ sent' = [sent EXCEPT ![r] = more]
    BY <1>2 DEF Send
  <2>3. more \in Seq(Nat) /\ out_i[r] + 1 <= Len(out_local_queue[r])
    BY <2>1 DEF OutInv
  <2>4. /\ InOrder(to_publish[r], out_queue[r], out_local_queue[r], out_i[r] + 1, sent[r])
        /\ InOrder(to_publish[r], out_queue[r], out_local_queue[r], out_i[r] + 1, more)
    BY <2>1, SendOrder DEF OutInv
  <2> HIDE DEF more
  <2>5. OutTypes'
    <3>1. out_i' \in [Receiver -> Nat] /\ \A s \in Receiver : out_i'[s] <= Len(out_local_queue[s])
      BY <2>1, <2>3 DEF OutInv
    <3>2. sent' \in [Receiver -> Seq(Nat)]
      BY <2>2, <2>3 DEF OutInv
    <3>3. QED  BY <2>1, <3>1, <3>2 DEF OutInv
  <2>6. ASSUME NEW s \in Receiver
        PROVE  InOrder(to_publish'[s], out_queue'[s], out_local_queue'[s], out_i'[s], sent'[s])
    <3>1. CASE s = r
      BY <2>1, <2>2, <2>4, <3>1 DEF OutInv
    <3>2. CASE s # r
      BY <2>1, <2>2, <3>2 DEF OutInv
    <3>3. QED  BY <3>1, <3>2
  <2>7. QED  BY <2>5, <2>6 DEF OutInv
<1>3. ASSUME NEW r \in Receiver, FetchOutgoing(r) PROVE OutInv'
  <2>1. CASE UNCHANGED outgoing
    BY <1>1, <2>1
  <2>2. CASE /\ out_local_queue' = [out_local_queue EXCEPT ![r] = out_queue[r]]
             /\ out_queue' = [out_queue EXCEPT ![r] = <<>>]
             /\ out_i' = [out_i EXCEPT ![r] = 0]
             /\ UNCHANGED <<to_publish, sent>>
    BY <2>2, FetchOrder DEF OutInv
  <2>3. QED  BY <1>3, <2>1, <2>2 DEF FetchOutgoing, NextToSend, outgoing
<1>4. ASSUME NEW r \in Receiver, Publish(r) PROVE OutInv'
  <2>1. /\ to_publish[r] > 0 /\ to_publish' = [to_publish EXCEPT ![r] = to_publish[r] - 1]
        /\ out_queue' = [out_queue EXCEPT ![r] = Append(out_queue[r], to_publish[r])]
        /\ UNCHANGED <<out_local_queue, out_i, sent>>
    BY <1>4 DEF Publish
  <2>2. to_publish[r] - 1 \in Nat /\ Append(out_queue[r], to_publish[r]) \in Seq(Nat)
    BY <2>1 DEF OutInv
  <2>3. InOrder(to_publish[r] - 1, Append(out_queue[r], to_publish[r]), out_local_queue[r],
                out_i[r], sent[r])
    BY <2>1, PublishOrder DEF OutInv
  <2>4. QED  BY <2>1, <2>2, <2>3 DEF OutInv
<1>5. ASSUME NEW r \in Receiver, FinaliseOut(r) PROVE OutInv'
  BY <1>5, FetchOrder DEF FinaliseOut, OutInv
<1>6. ASSUME NEW r \in Receiver, ReceiverNext(r) \/ RestartNext(r) \/ Publish(r)
      PROVE  OutInv'
  BY <1>1, <1>2, <1>3, <1>4, <1>5, <1>6
     DEF ReceiverNext, RestartNext, Transfer, NoTransfer, Receive, NoMessage, PollFails,
         FinaliseIn, Initialise, InitialiseFails, ResumeSending, outgoing
<1>7. CASE Take \/ Dispatch \/ \E t \in Topic : Insert(t)
  BY <1>1, <1>7 DEF Take, Dispatch, Insert
<1>8. CASE \E b \in Buffer : JobNext(b)
  BY <1>1, <1>8 DEF JobNext, Sort, Push, Finish, JobFails
<1>9. CASE UNCHANGED vars
  BY <1>1, <1>9 DEF vars, outgoing
<1>10. QED  BY <1>6, <1>7, <1>8, <1>9 DEF Next

LEMMA OutInitially == Init => OutInv
<1> SUFFICES ASSUME Init PROVE OutInv
  OBVIOUS
<1>1. PICK load \in Load : to_publish = load.out
  BY DEF Init
<1>2. /\ to_publish \in [Receiver -> Nat]
      /\ out_queue = [r \in Receiver |-> <<>>] /\ out_local_queue = [r \in Receiver |-> <<>>]
      /\ out_i = [r \in Receiver |-> 0] /\ sent = [r \in Receiver |-> <<>>]
  BY <1>1, MulticastAssumption DEF Init
<1>3. QED  BY <1>2 DEF OutInv, OutTypes, InOrder, Falls, Older, Past

\* A receiver sends each thing it is given once at most, and in the order it is given
\* them, however often it is restarted.
THEOREM SendingKeepsOrder == Spec => []SentInOrder
<1>1. OutInv => SentInOrder
  BY DEF OutInv, OutTypes, InOrder, Falls, SentInOrder
<1>2. OutInv /\ [Next]_vars => OutInv'
  BY OutInductive
<1>3. QED  BY <1>1, <1>2, OutInitially, PTL DEF Spec

-----------------------------------------------------------------------------
(* Who has a buffer.                                                       *)

\* A queue of different things stays one when another is appended, when its first is
\* taken, and when another such queue is put behind it.
LEMMA AppendedQueue ==
  ASSUME NEW S, NEW q \in Seq(S), NEW e \in S
  PROVE  /\ Append(q, e) \in Seq(S)
         /\ ToSet(Append(q, e)) = ToSet(q) \cup {e}
         /\ IsInjective(q) /\ e \notin ToSet(q) => IsInjective(Append(q, e))
<1> DEFINE v == Append(q, e)
           n == Len(q) + 1
<1>1. /\ v \in Seq(S) /\ DOMAIN v = DOMAIN q \cup {n} /\ v[n] = e
      /\ \A k \in DOMAIN q : v[k] = q[k]
  BY AppendedPlaces
<1> HIDE DEF v, n
<1>2. ToSet(v) = ToSet(q) \cup {e}
  BY <1>1 DEF ToSet
<1>3. IsInjective(q) /\ e \notin ToSet(q) => IsInjective(v)
  BY <1>1 DEF IsInjective, ToSet
<1>4. QED  BY <1>1, <1>2, <1>3 DEF v

LEMMA TailOfQueue ==
  ASSUME NEW S, NEW q \in Seq(S), q # <<>>
  PROVE  /\ Tail(q) \in Seq(S) /\ Head(q) \in S /\ Head(q) \in ToSet(q)
         /\ ToSet(q) = ToSet(Tail(q)) \cup {Head(q)}
         /\ IsInjective(q) => IsInjective(Tail(q)) /\ Head(q) \notin ToSet(Tail(q))
<1>1. /\ Tail(q) \in Seq(S) /\ Len(Tail(q)) = Len(q) - 1
      /\ \A i \in 1..Len(Tail(q)) : Tail(q)[i] = q[i + 1]
      /\ Head(q) = q[1] /\ Len(q) \in Nat \ {0}
  BY HeadTailProperties, EmptySeq
<1> DEFINE t == Tail(q)
<1>2. /\ DOMAIN q = 1..Len(q) /\ DOMAIN t = 1..(Len(q) - 1)
      /\ \A i \in DOMAIN t : i + 1 \in DOMAIN q /\ t[i] = q[i + 1]
      /\ \A i \in DOMAIN q : i # 1 => i - 1 \in DOMAIN t /\ t[i - 1] = q[i]
      /\ 1 \in DOMAIN q /\ q[1] \in S
  BY <1>1, LenProperties
<1> HIDE DEF t
<1>3. ToSet(q) = ToSet(t) \cup {q[1]}
  BY <1>2 DEF ToSet
<1>4. ASSUME IsInjective(q) PROVE IsInjective(t) /\ q[1] \notin ToSet(t)
  <2>1. \A i, k \in DOMAIN q : q[i] = q[k] => i = k
    BY <1>4 DEF IsInjective
  <2>2. \A i \in DOMAIN t : i \in Nat /\ i + 1 # 1
    BY <1>1, <1>2
  <2>3. \A i, k \in DOMAIN t : t[i] = t[k] => i = k
    BY <1>2, <2>1, <2>2
  <2>4. q[1] \notin ToSet(t)
    BY <1>2, <2>1, <2>2 DEF ToSet
  <2>5. QED  BY <2>3, <2>4 DEF IsInjective
<1>5. QED  BY <1>1, <1>2, <1>3, <1>4 DEF t

LEMMA JoinedQueues ==
  ASSUME NEW S, NEW x \in Seq(S), NEW y \in Seq(S)
  PROVE  /\ ToSet(x \o y) = ToSet(x) \cup ToSet(y)
         /\ IsInjective(x) /\ IsInjective(y) /\ ToSet(x) \cap ToSet(y) = {}
              => IsInjective(x \o y)
<1> DEFINE z == x \o y
           n == Len(x)
<1>1. /\ z \in Seq(S) /\ Len(z) = n + Len(y) /\ n \in Nat /\ Len(y) \in Nat
      /\ \A i \in 1..(n + Len(y)) : z[i] = IF i <= n THEN x[i] ELSE y[i - n]
  BY ConcatProperties, LenProperties
<1>2. /\ DOMAIN x = 1..n /\ DOMAIN y = 1..Len(y) /\ DOMAIN z = 1..(n + Len(y))
  BY <1>1, LenProperties
<1> HIDE DEF z, n
<1>3. /\ \A i \in DOMAIN x : i \in DOMAIN z /\ z[i] = x[i]
      /\ \A i \in DOMAIN y : n + i \in DOMAIN z /\ z[n + i] = y[i]
      /\ \A i \in DOMAIN z : \/ i \in DOMAIN x /\ z[i] = x[i]
                             \/ i - n \in DOMAIN y /\ z[i] = y[i - n] /\ i = n + (i - n)
  BY <1>1, <1>2
<1>4. ToSet(z) = ToSet(x) \cup ToSet(y)
  BY <1>3 DEF ToSet
<1>5. ASSUME IsInjective(x), IsInjective(y), ToSet(x) \cap ToSet(y) = {}
      PROVE  IsInjective(z)
  <2> SUFFICES ASSUME NEW i \in DOMAIN z, NEW k \in DOMAIN z, z[i] = z[k] PROVE i = k
    BY DEF IsInjective
  <2>1. \/ i \in DOMAIN x /\ k \in DOMAIN x /\ x[i] = x[k]
        \/ i - n \in DOMAIN y /\ k - n \in DOMAIN y /\ y[i - n] = y[k - n]
    BY <1>3, <1>5 DEF ToSet
  <2>2. i \in Nat /\ k \in Nat /\ n \in Nat
    BY <1>1, <1>2
  <2>3. QED  BY <1>5, <2>1, <2>2 DEF IsInjective
<1>6. QED  BY <1>4, <1>5 DEF z

HandTypes ==
  /\ in_local_queue \in [Receiver -> Buffer] /\ multicast_buffer_pool \subseteq Buffer
  /\ in_multicast_msg_queue \in Seq(Buffer) /\ local_msg_queue \in Seq(Buffer)
  /\ job \in [Buffer -> {"none", "sort", "finish"} \cup Topic]

Handed == ToSet(in_multicast_msg_queue) \cup ToSet(local_msg_queue)

\* No receiver, queue or job has the buffer.
Free(b) == /\ b \notin Handed /\ job[b] = "none"
           /\ \A r \in Receiver : in_local_queue[r] # b

\* A buffer is filled by one receiver, or waits in one place, or is sorted, or is free.
OwnerInv ==
  /\ HandTypes
  /\ \A r, s \in Receiver : in_local_queue[r] = in_local_queue[s] => r = s
  /\ IsInjective(in_multicast_msg_queue) /\ IsInjective(local_msg_queue)
  /\ ToSet(in_multicast_msg_queue) \cap ToSet(local_msg_queue) = {}
  /\ \A b \in Handed : job[b] = "none"
  /\ \A r \in Receiver : in_local_queue[r] \notin Handed /\ job[in_local_queue[r]] = "none"
  /\ \A b \in multicast_buffer_pool : Free(b)

LEMMA InUseOrFree == \A b \in Buffer : b \notin InUse <=> Free(b)
BY DEF InUse, Handed, Working, Free

\* GetNew finds a buffer nobody has.
LEMMA GetNewIsFree ==
  ASSUME OwnerInv, BufferLeft
  PROVE  GetNew \in Buffer /\ Free(GetNew)
<1>1. \E b \in Buffer : IF multicast_buffer_pool # {} THEN b \in multicast_buffer_pool
                                                      ELSE b \notin InUse
  BY DEF OwnerInv, HandTypes, BufferLeft
<1>2. /\ GetNew \in Buffer
      /\ IF multicast_buffer_pool # {} THEN GetNew \in multicast_buffer_pool
                                       ELSE GetNew \notin InUse
  BY <1>1 DEF GetNew
<1>3. QED  BY <1>2, InUseOrFree DEF OwnerInv

\* A step that moves no buffer.
LEMMA SameOwners ==
  ASSUME OwnerInv,
         UNCHANGED <<in_local_queue, multicast_buffer_pool, in_multicast_msg_queue,
                     local_msg_queue, job>>
  PROVE  OwnerInv'
BY DEF OwnerInv, HandTypes, Handed, Free

\* A job goes on, or ends and gives its buffer back.
LEMMA JobKeepsOwners ==
  ASSUME OwnerInv, NEW b \in Buffer, job[b] # "none",
         NEW step \in {"none", "sort", "finish"} \cup Topic,
         job' = [job EXCEPT ![b] = step],
         multicast_buffer_pool' = IF step = "none" THEN multicast_buffer_pool \cup {b}
                                                   ELSE multicast_buffer_pool,
         UNCHANGED <<in_local_queue, in_multicast_msg_queue, local_msg_queue>>
  PROVE  OwnerInv'
<1>1. b \notin Handed /\ \A r \in Receiver : in_local_queue[r] # b
  BY DEF OwnerInv
<1>2. HandTypes' /\ Handed' = Handed
  BY DEF OwnerInv, HandTypes, Handed
<1>3. /\ \A c \in Buffer : c # b => job'[c] = job[c]
      /\ job'[b] = step
  BY DEF OwnerInv, HandTypes
<1>4. \A c \in Handed : c \in Buffer
  BY DEF OwnerInv, HandTypes, Handed, ToSet
<1>5. \A c \in multicast_buffer_pool' : Free(c)'
  BY <1>1, <1>2, <1>3 DEF OwnerInv, HandTypes, Free
<1>6. \A r \in Receiver : in_local_queue[r] \in Buffer
  BY DEF OwnerInv, HandTypes
<1>7. QED  BY <1>1, <1>2, <1>3, <1>4, <1>5, <1>6 DEF OwnerInv

\* What a receiver's new buffer is.
LEMMA NewBuffer ==
  ASSUME OwnerInv, NEW r \in Receiver, FillNewBuffer(r)
  PROVE  \E new \in Buffer :
           /\ Free(new)
           /\ in_local_queue' = [in_local_queue EXCEPT ![r] = new]
           /\ multicast_buffer_pool' = multicast_buffer_pool \ {new}
           /\ content' = [content EXCEPT ![new] = <<>>]
BY GetNewIsFree DEF FillNewBuffer, Emptied

\* A receiver is given another buffer, and has handed the old one on or forgets it.
LEMMA ReceiverKeepsOwners ==
  ASSUME OwnerInv, NEW r \in Receiver, FillNewBuffer(r), UNCHANGED <<local_msg_queue, job>>,
         in_multicast_msg_queue' \in {in_multicast_msg_queue,
                                     Append(in_multicast_msg_queue, in_local_queue[r])}
  PROVE  OwnerInv'
<1>1. PICK new \in Buffer :
        /\ Free(new)
        /\ in_local_queue' = [in_local_queue EXCEPT ![r] = new]
        /\ multicast_buffer_pool' = multicast_buffer_pool \ {new}
  BY NewBuffer
<1> DEFINE b == in_local_queue[r]
<1>2. b \in Buffer /\ b \notin Handed /\ job[b] = "none" /\ b # new
  BY <1>1 DEF OwnerInv, HandTypes, Free
<1>3. /\ in_multicast_msg_queue' \in Seq(Buffer)
      /\ IsInjective(in_multicast_msg_queue')
      /\ ToSet(in_multicast_msg_queue') \in {ToSet(in_multicast_msg_queue),
                                             ToSet(in_multicast_msg_queue) \cup {b}}
  <2> DEFINE q == in_multicast_msg_queue
  <2>1. q \in Seq(Buffer) /\ IsInjective(q) /\ b \notin ToSet(q)
    BY <1>2 DEF OwnerInv, HandTypes, Handed
  <2>2. /\ Append(q, b) \in Seq(Buffer) /\ IsInjective(Append(q, b))
        /\ ToSet(Append(q, b)) = ToSet(q) \cup {b}
    BY <1>2, <2>1, AppendedQueue
  <2>3. CASE in_multicast_msg_queue' = q
    BY <2>1, <2>3
  <2>4. CASE in_multicast_msg_queue' = Append(q, b)
    BY <2>2, <2>4
  <2>5. QED  BY <2>3, <2>4
<1>4. HandTypes' /\ Handed' \in {Handed, Handed \cup {b}} /\ job' = job
  BY <1>1, <1>3 DEF OwnerInv, HandTypes, Handed
<1>5. \A s \in Receiver : in_local_queue'[s] = IF s = r THEN new ELSE in_local_queue[s]
  BY <1>1 DEF OwnerInv, HandTypes
<1>6. \A s, t \in Receiver : in_local_queue'[s] = in_local_queue'[t] => s = t
  BY <1>1, <1>5 DEF OwnerInv, Free
<1>7. ToSet(in_multicast_msg_queue') \cap ToSet(local_msg_queue) = {}
  BY <1>2, <1>3 DEF OwnerInv, Handed
<1>8. \A s \in Receiver : in_local_queue'[s] \notin Handed' /\ job[in_local_queue'[s]] = "none"
  BY <1>1, <1>2, <1>4, <1>5 DEF OwnerInv, Free
<1>9. \A c \in multicast_buffer_pool' : Free(c)'
  BY <1>1, <1>4, <1>5 DEF OwnerInv, Free
<1>10. \A c \in Handed' : job[c] = "none"
  BY <1>2, <1>4 DEF OwnerInv
<1>11. QED
  BY <1>3, <1>4, <1>6, <1>7, <1>8, <1>9, <1>10 DEF OwnerInv

\* The distributor takes the queue, and makes a job of its first buffer.
LEMMA WorkersKeepOwners ==
  ASSUME OwnerInv, Take \/ Dispatch
  PROVE  OwnerInv'
<1>e. ToSet(<<>>) = {} /\ <<>> \in Seq(Buffer) /\ IsInjective(<<>>)
  BY DEF ToSet, IsInjective
<1>1. CASE Take
  <2>1. /\ local_msg_queue = <<>> /\ local_msg_queue' = in_multicast_msg_queue
        /\ in_multicast_msg_queue' = <<>>
        /\ UNCHANGED <<in_local_queue, multicast_buffer_pool, job>>
    BY <1>1 DEF Take, QueueLeft
  <2>2. HandTypes' /\ Handed' = Handed
    BY <1>e, <2>1 DEF OwnerInv, HandTypes, Handed
  <2>3. QED  BY <1>e, <2>1, <2>2 DEF OwnerInv, Free
<1>2. CASE Dispatch
  <2> DEFINE q == local_msg_queue
             b == Head(q)
  <2>1. /\ q # <<>> /\ q' = Tail(q) /\ job' = [job EXCEPT ![b] = "sort"]
        /\ UNCHANGED <<in_local_queue, multicast_buffer_pool, in_multicast_msg_queue>>
    BY <1>2 DEF Dispatch, incoming
  <2>2. /\ b \in Buffer /\ ToSet(q) = ToSet(q') \cup {b} /\ b \notin ToSet(q')
        /\ q' \in Seq(Buffer) /\ IsInjective(q')
    BY <2>1, TailOfQueue DEF OwnerInv, HandTypes
  <2>3. HandTypes' /\ Handed = Handed' \cup {b} /\ b \notin Handed'
    BY <2>1, <2>2 DEF OwnerInv, HandTypes, Handed
  <2>4. \A c \in Buffer : c # b => job'[c] = job[c]
    BY <2>1 DEF OwnerInv, HandTypes
  <2>5. /\ \A c \in Handed' : c \in Buffer
        /\ \A r \in Receiver : in_local_queue[r] \in Buffer
        /\ \A c \in multicast_buffer_pool : c \in Buffer
    BY <2>3 DEF OwnerInv, HandTypes, Handed, ToSet
  <2> HIDE DEF b
  <2>6. /\ \A c \in Handed' : job'[c] = "none"
        /\ \A r \in Receiver : in_local_queue'[r] \notin Handed' /\ job'[in_local_queue'[r]] = "none"
        /\ \A c \in multicast_buffer_pool' : Free(c)'
    BY <2>1, <2>3, <2>4, <2>5 DEF OwnerInv, Free
  <2>7. ToSet(in_multicast_msg_queue') \cap ToSet(q') = {}
    BY <2>1, <2>2 DEF OwnerInv
  <2>8. QED  BY <2>1, <2>2, <2>3, <2>6, <2>7 DEF OwnerInv
<1>3. QED  BY <1>1, <1>2

\* Every step leaves each buffer with one owner.
LEMMA OwnersInductive == ASSUME OwnerInv, [Next]_vars PROVE OwnerInv'
<1> USE DEF incoming, workers
<1>1. ASSUME NEW r \in Receiver, ReceiverNext(r) PROVE OwnerInv'
  <2>1. CASE Transfer(r)
    BY <2>1, ReceiverKeepsOwners DEF Transfer
  <2>2. CASE ~Transfer(r)
    BY <1>1, <2>2, SameOwners
       DEF ReceiverNext, NoTransfer, Receive, NoMessage, PollFails, Send, FetchOutgoing
  <2>3. QED  BY <2>1, <2>2
<1>2. ASSUME NEW r \in Receiver, RestartNext(r) PROVE OwnerInv'
  <2>1. CASE Initialise(r)
    BY <2>1, ReceiverKeepsOwners DEF Initialise
  <2>2. CASE FinaliseIn(r)
    <3>1. /\ in_multicast_msg_queue' = <<>>
          /\ UNCHANGED <<in_local_queue, multicast_buffer_pool, local_msg_queue, job>>
      BY <2>2 DEF FinaliseIn
    <3>2. ToSet(<<>>) = {} /\ <<>> \in Seq(Buffer) /\ IsInjective(<<>>)
      BY DEF ToSet, IsInjective
    <3>3. HandTypes' /\ Handed' \subseteq Handed
      BY <3>1, <3>2 DEF OwnerInv, HandTypes, Handed
    <3>4. QED  BY <3>1, <3>2, <3>3 DEF OwnerInv, Free
  <2>3. CASE FinaliseOut(r) \/ InitialiseFails(r)
    BY <2>3, SameOwners DEF FinaliseOut, InitialiseFails
  <2>4. QED  BY <1>2, <2>1, <2>2, <2>3 DEF RestartNext
<1>3. ASSUME NEW r \in Receiver, Publish(r) PROVE OwnerInv'
  BY <1>3, SameOwners DEF Publish
<1>4. ASSUME NEW b \in Buffer, JobNext(b) PROVE OwnerInv'
  <2>0. {"bad", "none", "sort", "finish"} \cap Topic = {}
        /\ \A n \in DOMAIN TopicOrder : TopicOrder[n] \in Topic
    BY MulticastAssumption DEF Topic, ToSet
  <2>1. CASE Sort(b)
    <3>1. job' = [job EXCEPT ![b] = TopicOrder[1]] /\ job[b] # "none"
          /\ UNCHANGED <<in_local_queue, multicast_buffer_pool, in_multicast_msg_queue,
                         local_msg_queue>>
      BY <2>1 DEF Sort
    <3>2. TopicOrder[1] \in Topic
      BY <2>0, MulticastAssumption, EmptySeq
    <3>3. QED  BY <2>0, <3>1, <3>2, JobKeepsOwners
  <2>2. CASE Push(b)
    <3>1. PICK n \in DOMAIN TopicOrder :
            /\ job[b] = TopicOrder[n]
            /\ job' = [job EXCEPT ![b] = IF n < Len(TopicOrder) THEN TopicOrder[n + 1]
                                         ELSE "finish"]
            /\ UNCHANGED <<in_local_queue, multicast_buffer_pool, in_multicast_msg_queue,
                           local_msg_queue>>
      BY <2>2 DEF Push
    <3> DEFINE step == IF n < Len(TopicOrder) THEN TopicOrder[n + 1] ELSE "finish"
    <3>2. step \in Topic \cup {"finish"}
      BY <2>0, MulticastAssumption, LenProperties
    <3>3. job[b] # "none" /\ step # "none"
      BY <2>0, <3>1, <3>2
    <3> HIDE DEF step
    <3>4. job' = [job EXCEPT ![b] = step]
      BY <3>1 DEF step
    <3>5. QED  BY <3>1, <3>2, <3>3, <3>4, JobKeepsOwners
  <2>3. CASE Finish(b) \/ JobFails(b)
    <3>1. /\ job[b] # "none" /\ job' = [job EXCEPT ![b] = "none"]
          /\ multicast_buffer_pool' = multicast_buffer_pool \cup {b}
          /\ UNCHANGED <<in_local_queue, in_multicast_msg_queue, local_msg_queue>>
      BY <2>3 DEF Finish, JobFails, ReturnBuffer
    <3>2. QED  BY <3>1, JobKeepsOwners
  <2>4. QED  BY <1>4, <2>1, <2>2, <2>3 DEF JobNext
<1>5. ASSUME NEW t \in Topic, Insert(t) PROVE OwnerInv'
  BY <1>5, SameOwners DEF Insert
<1>6. CASE UNCHANGED vars
  BY <1>6, SameOwners DEF vars
<1>7. QED  BY <1>1, <1>2, <1>3, <1>4, <1>5, <1>6, WorkersKeepOwners DEF Next

LEMMA OwnersInitially == Init => OwnerInv
<1> SUFFICES ASSUME Init PROVE OwnerInv
  OBVIOUS
<1>1. ToSet(<<>>) = {} /\ <<>> \in Seq(Buffer) /\ IsInjective(<<>>)
  BY DEF ToSet, IsInjective
<1>2. QED  BY <1>1 DEF Init, OwnerInv, HandTypes, Handed, Receiver

\* A buffer is never in two hands, restarts and failed jobs included: what a job sorts is
\* not being received into.
THEOREM BuffersAreOwnedOnce == Spec => []BuffersHaveOneOwner
<1>1. OwnerInv => BuffersHaveOneOwner
  <2> SUFFICES ASSUME OwnerInv PROVE BuffersHaveOneOwner
    OBVIOUS
  <2> DEFINE q == in_multicast_msg_queue
             l == local_msg_queue
  <2>1. ToSet(q \o l) = Handed /\ IsInjective(q \o l)
    BY JoinedQueues DEF OwnerInv, HandTypes, Handed
  <2>2. \A b \in multicast_buffer_pool : b \in Buffer /\ b \notin InUse
    BY InUseOrFree DEF OwnerInv, HandTypes
  <2>3. QED  BY <2>1, <2>2 DEF OwnerInv, BuffersHaveOneOwner, Working, Receiver
<1>2. OwnerInv /\ [Next]_vars => OwnerInv'
  BY OwnersInductive
<1>3. QED  BY <1>1, <1>2, OwnersInitially, PTL DEF Spec

-----------------------------------------------------------------------------
(* What the variables hold.                                                *)

\* The messages of a batch, at their places in the buffer they came in.
Batch == UNION {[D -> Message] : D \in SUBSET Nat}

LEMMA BatchFacts ==
  /\ <<>> \in Batch /\ DOMAIN <<>> = {}
  /\ \A b, t : content[b] \in Seq(Message) => Sorted(b, t) \in Batch
<1>1. \A D \in SUBSET Nat : \A f \in [D -> Message] : f \in Batch
  BY DEF Batch
<1>2. <<>> \in [{} -> Message] /\ DOMAIN <<>> = {}
  OBVIOUS
<1>3. ASSUME NEW b, NEW t, content[b] \in Seq(Message)
      PROVE  Sorted(b, t) \in Batch
  <2> DEFINE D == {k \in DOMAIN content[b] : TopicOf[content[b][k]] = t}
  <2>1. D \in SUBSET Nat /\ \A k \in D : content[b][k] \in Message
    BY <1>3
  <2> HIDE DEF D
  <2>2. [k \in D |-> content[b][k]] \in [D -> Message]
    BY <2>1
  <2>3. QED  BY <1>1, <2>1, <2>2 DEF Sorted, D
<1>4. QED  BY <1>1, <1>2, <1>3

PathTypes ==
  /\ pc \in [Receiver -> {"transfer", "poll", "write", "stopped", "finalising", "finalised"}]
  /\ content \in [Buffer -> Seq(Message)] /\ to_come \in [Receiver -> Seq(Message)]
  /\ batches \in [Buffer -> [Topic -> Batch]] /\ query_queue \in [Topic -> Seq(Batch)]
  /\ faults \in 0..MaxFaults /\ failed \in 0..faults

\* A receiver that polls has room for a message more.
RoomInv ==
  /\ \A b \in Buffer : Len(content[b]) <= local_buffer_size + 1
  /\ \A r \in Receiver : pc[r] = "poll" => Len(content[in_local_queue[r]]) <= local_buffer_size

\* Batches without a row are not handed on.
RowsInv == \A t \in Topic : \A n \in DOMAIN query_queue[t] : DOMAIN query_queue[t][n] # {}

TypeInv == OwnerInv /\ PathTypes /\ RoomInv /\ RowsInv

\* A receiver's new buffer is empty, and nobody else's.
LEMMA NewBufferTypes ==
  ASSUME TypeInv, NEW r \in Receiver, FillNewBuffer(r),
         NEW next \in {"transfer", "poll", "write", "stopped", "finalising", "finalised"},
         pc' = [pc EXCEPT ![r] = next],
         UNCHANGED <<to_come, batches, query_queue, faults, failed>>
  PROVE  PathTypes' /\ RoomInv' /\ RowsInv'
<1>1. PICK new \in Buffer :
        /\ Free(new)
        /\ in_local_queue' = [in_local_queue EXCEPT ![r] = new]
        /\ content' = [content EXCEPT ![new] = <<>>]
  BY NewBuffer DEF TypeInv
<1>2. <<>> \in Seq(Message) /\ Len(<<>>) = 0 /\ local_buffer_size \in Nat
  BY MulticastAssumption
<1>3. PathTypes' /\ RowsInv'
  BY <1>1, <1>2 DEF TypeInv, PathTypes, RowsInv
<1>4. RoomInv'
  <2>1. \A b \in Buffer : content'[b] = IF b = new THEN <<>> ELSE content[b]
    BY <1>1 DEF TypeInv, PathTypes
  <2>2. \A s \in Receiver : s # r => in_local_queue'[s] = in_local_queue[s]
                                     /\ pc'[s] = pc[s] /\ in_local_queue[s] # new
    BY <1>1 DEF TypeInv, PathTypes, OwnerInv, HandTypes, Free
  <2>3. /\ in_local_queue'[r] = new
        /\ \A s \in Receiver : in_local_queue[s] \in Buffer
    BY <1>1 DEF TypeInv, OwnerInv, HandTypes
  <2>4. QED  BY <1>2, <2>1, <2>2, <2>3 DEF TypeInv, RoomInv
<1>5. QED  BY <1>3, <1>4

\* A message is received where there is room for it.
LEMMA ReceiveTypes ==
  ASSUME TypeInv, NEW r \in Receiver, Receive(r)
  PROVE  PathTypes' /\ RoomInv' /\ RowsInv'
<1> DEFINE b == in_local_queue[r]
           m == Head(to_come[r])
<1>1. /\ pc[r] = "poll" /\ pc' = [pc EXCEPT ![r] = "write"] /\ to_come[r] # <<>>
      /\ content' = [content EXCEPT ![b] = Append(content[b], m)]
      /\ to_come' = [to_come EXCEPT ![r] = Tail(to_come[r])]
      /\ UNCHANGED <<in_local_queue, batches, query_queue, faults, failed>>
  BY DEF Receive, workers
<1>2. b \in Buffer /\ content[b] \in Seq(Message) /\ to_come[r] \in Seq(Message)
  BY DEF TypeInv, OwnerInv, HandTypes, PathTypes
<1>3. /\ m \in Message /\ Tail(to_come[r]) \in Seq(Message)
  BY <1>1, <1>2, TailOfQueue
<1>4. /\ Append(content[b], m) \in Seq(Message)
      /\ Len(Append(content[b], m)) = Len(content[b]) + 1 /\ Len(content[b]) \in Nat
      /\ Len(content[b]) <= local_buffer_size /\ local_buffer_size \in Nat
  BY <1>1, <1>2, <1>3, AppendProperties, LenProperties, MulticastAssumption
     DEF TypeInv, RoomInv
<1> DEFINE more == Append(content[b], m)
<1> HIDE DEF m, more
<1>5. PathTypes' /\ RowsInv'
  BY <1>1, <1>2, <1>3, <1>4 DEF TypeInv, PathTypes, RowsInv, more
<1>6. \A s \in Receiver : s # r => in_local_queue[s] # b /\ pc'[s] = pc[s]
                                   /\ in_local_queue[s] \in Buffer
  BY <1>1 DEF TypeInv, OwnerInv, HandTypes, PathTypes
<1>7. \A c \in Buffer : content'[c] = IF c = b THEN more ELSE content[c]
  BY <1>1 DEF TypeInv, PathTypes, more
<1>8. pc'[r] = "write"
  BY <1>1 DEF TypeInv, PathTypes
<1>9. RoomInv'
  BY <1>1, <1>4, <1>6, <1>7, <1>8 DEF TypeInv, RoomInv, more
<1>10. QED  BY <1>5, <1>9

\* The rest of a receiver's steps leave its buffer alone.
LEMMA QuietTypes ==
  ASSUME TypeInv, NEW r \in Receiver,
         NEW next \in {"transfer", "poll", "write", "stopped", "finalising", "finalised"},
         next = "poll" => ~Full(in_local_queue[r]),
         pc' = [pc EXCEPT ![r] = next],
         UNCHANGED <<in_local_queue, content, to_come, batches, query_queue, failed>>,
         faults' = faults \/ Fault
  PROVE  PathTypes' /\ RoomInv' /\ RowsInv'
<1>1. faults' \in 0..MaxFaults /\ failed' \in 0..faults'
  BY MulticastAssumption DEF TypeInv, PathTypes, Fault
<1>2. PathTypes' /\ RowsInv'
  BY <1>1 DEF TypeInv, PathTypes, RowsInv
<1>3. \A s \in Receiver : pc'[s] = IF s = r THEN next ELSE pc[s]
  BY DEF TypeInv, PathTypes
<1>4. \A s \in Receiver : in_local_queue[s] \in Buffer /\ content[in_local_queue[s]] \in Seq(Message)
  BY DEF TypeInv, PathTypes, OwnerInv, HandTypes
<1>5. next = "poll" => Len(content[in_local_queue[r]]) <= local_buffer_size
  BY <1>4, LenProperties, MulticastAssumption DEF Full
<1>6. RoomInv'
  BY <1>3, <1>5 DEF TypeInv, RoomInv
<1>7. QED  BY <1>2, <1>6

\* What a job makes of its messages, hands on and leaves behind.
LEMMA JobTypes ==
  ASSUME TypeInv, NEW b \in Buffer, JobNext(b)
  PROVE  PathTypes' /\ RoomInv' /\ RowsInv'
<1>0. /\ content[b] \in Seq(Message) /\ batches[b] \in [Topic -> Batch]
      /\ <<>> \in Batch /\ <<>> \in Seq(Message) /\ Len(<<>>) = 0 /\ local_buffer_size \in Nat
  BY BatchFacts, MulticastAssumption DEF TypeInv, PathTypes
<1>1. CASE Sort(b)
  <2> DEFINE made == [t \in Topic |-> Sorted(b, t)]
  <2>1. /\ batches' = [batches EXCEPT ![b] = made]
        /\ UNCHANGED <<pc, in_local_queue, content, to_come, query_queue, faults, failed>>
    BY <1>1 DEF Sort, incoming
  <2>2. made \in [Topic -> Batch]
    BY <1>0, BatchFacts
  <2> HIDE DEF made
  <2>3. batches' \in [Buffer -> [Topic -> Batch]]
    BY <2>1, <2>2 DEF TypeInv, PathTypes
  <2>4. QED  BY <2>1, <2>3 DEF TypeInv, PathTypes, RoomInv, RowsInv
<1>2. CASE Push(b)
  <2>1. PICK n \in DOMAIN TopicOrder :
          LET t == TopicOrder[n] IN
          /\ query_queue' = IF HasRows(b, t)
                    THEN [query_queue EXCEPT ![t] = Append(@, batches[b][t])]
                    ELSE query_queue
          /\ batches' = [batches EXCEPT ![b][t] = <<>>]
          /\ UNCHANGED <<pc, in_local_queue, content, to_come, faults, failed>>
    BY <1>2 DEF Push, incoming
  <2> DEFINE t == TopicOrder[n]
             q == query_queue[t]
             x == batches[b][t]
  <2>2. t \in Topic
    BY MulticastAssumption DEF Topic, ToSet
  <2>3. batches' \in [Buffer -> [Topic -> Batch]]
    BY <1>0, <2>1, <2>2 DEF TypeInv, PathTypes
  <2>4. q \in Seq(Batch) /\ x \in Batch
    BY <1>0, <2>2 DEF TypeInv, PathTypes
  <2>5. /\ Append(q, x) \in Seq(Batch)
        /\ DOMAIN Append(q, x) = DOMAIN q \cup {Len(q) + 1}
        /\ \A k \in DOMAIN q : Append(q, x)[k] = q[k]
        /\ Append(q, x)[Len(q) + 1] = x
    <3> HIDE DEF q, x
    <3> QED BY <2>4, AppendedPlaces
  <2>6. query_queue' \in [Topic -> Seq(Batch)] /\ RowsInv'
    <3>1. CASE HasRows(b, t)
      <4>1. query_queue' = [query_queue EXCEPT ![t] = Append(q, x)]
        BY <2>1, <3>1
      <4>2. DOMAIN x # {}
        BY <3>1 DEF HasRows
      <4>3. query_queue' \in [Topic -> Seq(Batch)]
        BY <2>2, <2>5, <4>1 DEF TypeInv, PathTypes
      <4> DEFINE v == Append(q, x)
      <4>4. \A k \in DOMAIN v : DOMAIN v[k] # {}
        <5>1. \A k \in DOMAIN q : DOMAIN q[k] # {}
          BY <2>2 DEF TypeInv, RowsInv
        <5> HIDE DEF v, q, x
        <5>2. QED  BY <2>5, <4>2, <5>1 DEF v
      <4> HIDE DEF v
      <4>5. \A u \in Topic : query_queue'[u] = IF u = t THEN v ELSE query_queue[u]
        BY <2>2, <4>1 DEF TypeInv, PathTypes, v
      <4>6. RowsInv'
        BY <4>4, <4>5 DEF TypeInv, RowsInv
      <4>7. QED  BY <4>3, <4>6
    <3>2. CASE ~HasRows(b, t)
      BY <2>1, <3>2 DEF TypeInv, PathTypes, RowsInv
    <3>3. QED  BY <3>1, <3>2
  <2>7. QED  BY <2>1, <2>3, <2>6 DEF TypeInv, PathTypes, RoomInv
<1>3. CASE Finish(b) \/ JobFails(b)
  <2>1. /\ content' = [content EXCEPT ![b] = <<>>]
        /\ batches' \in {batches, [batches EXCEPT ![b] = NoBatches]}
        /\ UNCHANGED <<pc, in_local_queue, to_come, query_queue>>
        /\ \/ UNCHANGED <<faults, failed>>
           \/ Fault /\ failed' = failed + 1
    BY <1>3 DEF Finish, JobFails, ReturnBuffer, Emptied
  <2>2. faults' \in 0..MaxFaults /\ failed' \in 0..faults'
    BY <2>1, MulticastAssumption DEF TypeInv, PathTypes, Fault
  <2>3. batches' \in [Buffer -> [Topic -> Batch]]
    <3>1. NoBatches \in [Topic -> Batch]
      BY <1>0 DEF NoBatches
    <3>2. QED  BY <2>1, <3>1 DEF TypeInv, PathTypes
  <2>4. content' \in [Buffer -> Seq(Message)]
    BY <1>0, <2>1 DEF TypeInv, PathTypes
  <2>5. PathTypes' /\ RowsInv'
    BY <2>1, <2>2, <2>3, <2>4 DEF TypeInv, PathTypes, RowsInv
  <2>6. \A c \in Buffer : content'[c] = IF c = b THEN <<>> ELSE content[c]
    BY <2>1 DEF TypeInv, PathTypes
  <2>7. \A s \in Receiver : in_local_queue[s] \in Buffer
    BY DEF TypeInv, OwnerInv, HandTypes
  <2>8. RoomInv'
    BY <1>0, <2>1, <2>6, <2>7 DEF TypeInv, RoomInv
  <2>9. QED  BY <2>5, <2>8
<1>4. QED  BY <1>1, <1>2, <1>3 DEF JobNext

LEMMA TypesInductive == ASSUME TypeInv, [Next]_vars PROVE TypeInv'
<1>0. OwnerInv'
  BY OwnersInductive DEF TypeInv
<1> USE DEF incoming, workers
<1>1. ASSUME NEW r \in Receiver, ReceiverNext(r) \/ RestartNext(r) \/ Publish(r)
      PROVE  PathTypes' /\ RoomInv' /\ RowsInv'
  <2>1. CASE Transfer(r)
    BY <2>1, NewBufferTypes DEF Transfer
  <2>2. CASE Initialise(r)
    BY <2>2, NewBufferTypes DEF Initialise
  <2>3. CASE Receive(r)
    BY <2>3, ReceiveTypes
  <2>4. CASE NoTransfer(r)
    <3>1. /\ pc' = [pc EXCEPT ![r] = "poll"] /\ ~Full(in_local_queue[r])
          /\ UNCHANGED <<in_local_queue, content, to_come, batches, query_queue, faults, failed>>
      BY <2>4 DEF NoTransfer
    <3>2. QED  BY <3>1, QuietTypes
  <2>5. CASE NoMessage(r)
    <3>1. PICK next \in {"write", "transfer"} : pc' = [pc EXCEPT ![r] = next]
      BY <2>5 DEF NoMessage
    <3>2. UNCHANGED <<in_local_queue, content, to_come, batches, query_queue, faults, failed>>
      BY <2>5 DEF NoMessage
    <3>3. QED  BY <3>1, <3>2, QuietTypes
  <2>6. CASE PollFails(r)
    <3>1. /\ pc' = [pc EXCEPT ![r] = "stopped"] /\ Fault
          /\ UNCHANGED <<in_local_queue, content, to_come, batches, query_queue, failed>>
      BY <2>6 DEF PollFails
    <3>2. QED  BY <3>1, QuietTypes
  <2>7. CASE Send(r) \/ FetchOutgoing(r)
    <3>1. /\ pc' = [pc EXCEPT ![r] = "transfer"] /\ (faults' = faults \/ Fault)
          /\ UNCHANGED <<in_local_queue, content, to_come, batches, query_queue, failed>>
      BY <2>7 DEF Send, FetchOutgoing
    <3>2. QED  BY <3>1, QuietTypes
  <2>8. CASE FinaliseIn(r) \/ FinaliseOut(r) \/ InitialiseFails(r)
    <3>1. /\ \E next \in {"stopped", "finalising", "finalised"} : pc' = [pc EXCEPT ![r] = next]
          /\ UNCHANGED <<in_local_queue, content, to_come, batches, query_queue, faults, failed>>
      BY <2>8 DEF FinaliseIn, FinaliseOut, InitialiseFails
    <3>2. QED  BY <3>1, QuietTypes
  <2>9. CASE Publish(r)
    BY <2>9 DEF Publish, TypeInv, PathTypes, RoomInv, RowsInv
  <2>10. QED
    BY <1>1, <2>1, <2>2, <2>3, <2>4, <2>5, <2>6, <2>7, <2>8, <2>9
       DEF ReceiverNext, RestartNext
<1>2. ASSUME Take \/ Dispatch \/ UNCHANGED vars
      PROVE  PathTypes' /\ RoomInv' /\ RowsInv'
  <2>1. UNCHANGED <<pc, in_local_queue, content, to_come, batches, query_queue, faults, failed>>
    BY <1>2 DEF Take, Dispatch, vars
  <2>2. QED  BY <2>1 DEF TypeInv, PathTypes, RoomInv, RowsInv
<1>3. ASSUME NEW t \in Topic, Insert(t)
      PROVE  PathTypes' /\ RoomInv' /\ RowsInv'
  <2>1. /\ query_queue' = [query_queue EXCEPT ![t] = <<>>]
        /\ UNCHANGED <<pc, in_local_queue, content, to_come, batches, faults, failed>>
    BY <1>3 DEF Insert
  <2>2. <<>> \in Seq(Batch) /\ DOMAIN <<>> = {}
    OBVIOUS
  <2>3. QED  BY <2>1, <2>2 DEF TypeInv, PathTypes, RoomInv, RowsInv
<1>4. PathTypes' /\ RoomInv' /\ RowsInv'
  BY <1>1, <1>2, <1>3, JobTypes DEF Next
<1>5. QED  BY <1>0, <1>4 DEF TypeInv

LEMMA TypesInitially == Init => TypeInv
<1> SUFFICES ASSUME Init PROVE TypeInv
  OBVIOUS
<1>1. /\ <<>> \in Batch /\ <<>> \in Seq(Message) /\ <<>> \in Seq(Batch)
      /\ Len(<<>>) = 0 /\ DOMAIN <<>> = {} /\ local_buffer_size \in Nat /\ MaxFaults \in Nat
  BY BatchFacts, MulticastAssumption
<1>2. PICK load \in Load : to_come = load.in
  BY DEF Init
<1>3. to_come \in [Receiver -> Seq(Message)]
  BY <1>2, MulticastAssumption
<1>4. PathTypes
  BY <1>1, <1>3 DEF Init, PathTypes, NoBatches
<1>5. RoomInv /\ RowsInv
  BY <1>1, OwnersInitially DEF Init, RoomInv, RowsInv, OwnerInv, HandTypes
<1>6. QED  BY <1>4, <1>5, OwnersInitially DEF TypeInv

\* The variables hold what they are declared to: no buffer outgrows its size by more than
\* the message that fills it, no batch without a row is handed on.
THEOREM PathTypeCorrect == Spec => []TypeOK
<1>1. TypeInv /\ OutInv => TypeOK
  <2> SUFFICES ASSUME TypeInv, OutInv PROVE TypeOK
    OBVIOUS
  <2>1. ToSet(in_multicast_msg_queue) \cup ToSet(local_msg_queue) \subseteq Buffer
    BY DEF TypeInv, OwnerInv, HandTypes, ToSet
  <2>2. \A r \in Receiver : out_i[r] \in 0..Len(out_local_queue[r])
    BY LenProperties DEF OutInv, OutTypes
  <2>3. \A t \in Topic : \A q \in ToSet(query_queue[t]) : DOMAIN q # {}
    BY DEF TypeInv, RowsInv, ToSet
  <2>4. QED
    BY <2>1, <2>2, <2>3 DEF TypeInv, OwnerInv, HandTypes, PathTypes, RoomInv, TypeOK
<1>2. TypeInv /\ [Next]_vars => TypeInv'
  BY TypesInductive
<1>3. OutInv /\ [Next]_vars => OutInv'
  BY OutInductive
<1>4. QED  BY <1>1, <1>2, <1>3, TypesInitially, OutInitially, PTL DEF Spec

-----------------------------------------------------------------------------
(* Where a message is.                                                     *)

Waits(m) == \E t \in Topic : \E n \in DOMAIN query_queue[t] :
              \E i \in DOMAIN query_queue[t][n] : query_queue[t][n][i] = m
Inserted(m) == \E t \in Topic : inserted[m][t] # 0

\* A message comes in once, and is then in one place of one buffer.
InOnce ==
  /\ \A b, c \in Buffer : \A i \in DOMAIN content[b], k \in DOMAIN content[c] :
       content[b][i] = content[c][k] => b = c /\ i = k
  /\ \A r, s \in Receiver : \A i \in DOMAIN to_come[r], k \in DOMAIN to_come[s] :
       to_come[r][i] = to_come[s][k] => r = s /\ i = k
  /\ \A r \in Receiver : \A i \in DOMAIN to_come[r] :
       /\ \A b \in Buffer : \A k \in DOMAIN content[b] : to_come[r][i] # content[b][k]
       /\ ~Waits(to_come[r][i]) /\ ~Inserted(to_come[r][i])

\* A buffer that is not sorted yet, and a batch that is not handed on, has nothing that is.
NotHandedOn ==
  /\ \A b \in Buffer : job[b] \in {"none", "sort"} =>
       \A i \in DOMAIN content[b] : ~Waits(content[b][i]) /\ ~Inserted(content[b][i])
  /\ \A b \in Buffer, t \in Topic : \A i \in DOMAIN batches[b][t] :
       ~Waits(batches[b][t][i]) /\ ~Inserted(batches[b][t][i])

\* A job's batches are parts of its buffer, and gone when it has handed them on.
PartsOfBuffer ==
  /\ \A b \in Buffer, t \in Topic : \A i \in DOMAIN batches[b][t] :
       /\ i \in DOMAIN content[b] /\ batches[b][t][i] = content[b][i]
       /\ TopicOf[content[b][i]] = t /\ job[b] \notin {"none", "sort"}
  /\ \A b \in Buffer : job[b] = "finish" => \A t \in Topic : DOMAIN batches[b][t] = {}
  /\ \A b \in Buffer, n, k \in DOMAIN TopicOrder :
       job[b] = TopicOrder[n] /\ k < n => DOMAIN batches[b][TopicOrder[k]] = {}

\* A message waits in one place, its topic's, or is inserted, once.
QueuedOnce == \A t \in Topic : \A n \in DOMAIN query_queue[t] :
  \A i \in DOMAIN query_queue[t][n] :
    /\ TopicOf[query_queue[t][n][i]] = t /\ ~Inserted(query_queue[t][n][i])
    /\ \A l \in DOMAIN query_queue[t] : \A k \in DOMAIN query_queue[t][l] :
         query_queue[t][n][i] = query_queue[t][l][k] => n = l /\ i = k
Counted ==
  /\ inserted \in [Message -> [Topic -> Nat]]
  /\ \A m \in Message, t \in Topic : inserted[m][t] <= IF TopicOf[m] = t THEN 1 ELSE 0

PlaceInv == InOnce /\ NotHandedOn /\ PartsOfBuffer /\ QueuedOnce /\ Counted

\* A buffer is emptied that no job has, or no more.
LEMMA EmptyingKeepsPlaces ==
  ASSUME PlaceInv, NEW b \in Buffer,
         UNCHANGED <<to_come, query_queue, inserted>>,
         content'[b] = <<>>, job'[b] = "none", \A t \in Topic : DOMAIN batches'[b][t] = {},
         \A c \in Buffer : c # b =>
           content'[c] = content[c] /\ job'[c] = job[c] /\ batches'[c] = batches[c]
  PROVE  PlaceInv'
<1>1. DOMAIN <<>> = {} /\ \A m : Waits(m)' = Waits(m) /\ Inserted(m)' = Inserted(m)
  BY DEF Waits, Inserted
<1>2. InOnce'
  BY <1>1 DEF PlaceInv, InOnce
<1>3. NotHandedOn'
  BY <1>1 DEF PlaceInv, NotHandedOn
<1>4. PartsOfBuffer'
  <2>0. {"bad", "none", "sort", "finish"} \cap Topic = {}
        /\ \A n \in DOMAIN TopicOrder : TopicOrder[n] \in Topic
    BY MulticastAssumption DEF Topic, ToSet
  <2>1. \A c \in Buffer, t \in Topic : \A i \in DOMAIN batches'[c][t] : c # b
    OBVIOUS
  <2>2. \A n \in DOMAIN TopicOrder : job'[b] # TopicOrder[n]
    BY <2>0
  <2>3. QED  BY <2>1, <2>2 DEF PlaceInv, PartsOfBuffer
<1>5. QueuedOnce' /\ Counted'
  BY <1>1 DEF PlaceInv, QueuedOnce, Counted
<1>6. QED  BY <1>2, <1>3, <1>4, <1>5 DEF PlaceInv

\* The places of what a queue's first leaves behind.
LEMMA TailPlaces ==
  ASSUME NEW S, NEW q \in Seq(S), q # <<>>
  PROVE  /\ 1 \in DOMAIN q /\ Head(q) = q[1]
         /\ \A i \in DOMAIN Tail(q) : /\ i \in Nat /\ i + 1 # 1 /\ i + 1 \in DOMAIN q
                                      /\ Tail(q)[i] = q[i + 1]
<1>1. /\ Tail(q) \in Seq(S) /\ Len(Tail(q)) = Len(q) - 1
      /\ \A i \in 1..Len(Tail(q)) : Tail(q)[i] = q[i + 1]
      /\ Head(q) = q[1] /\ Len(q) \in Nat \ {0}
  BY HeadTailProperties, EmptySeq
<1>2. DOMAIN q = 1..Len(q) /\ DOMAIN Tail(q) = 1..(Len(q) - 1)
  BY <1>1, LenProperties
<1>3. QED  BY <1>1, <1>2

\* What comes in is in the receiver's buffer and no longer to come.
LEMMA ReceiveKeepsPlaces ==
  ASSUME TypeInv, PlaceInv, NEW r \in Receiver, Receive(r)
  PROVE  PlaceInv'
<1> DEFINE b == in_local_queue[r]
           q == to_come[r]
           m == Head(q)
           old == content[b]
           new == Append(old, m)
           e == Len(old) + 1
<1>1. /\ q # <<>> /\ content' = [content EXCEPT ![b] = new]
      /\ to_come' = [to_come EXCEPT ![r] = Tail(q)]
      /\ UNCHANGED <<batches, job, query_queue, inserted>>
  BY DEF Receive, workers
<1>2. b \in Buffer /\ old \in Seq(Message) /\ q \in Seq(Message) /\ job[b] = "none"
  BY DEF TypeInv, OwnerInv, HandTypes, PathTypes
<1>3. /\ m = q[1] /\ 1 \in DOMAIN q /\ m \in Message
      /\ \A i \in DOMAIN Tail(q) : /\ i \in Nat /\ i + 1 # 1 /\ i + 1 \in DOMAIN q
                                   /\ Tail(q)[i] = q[i + 1]
  <2> HIDE DEF q
  <2> QED BY <1>1, <1>2, TailPlaces
<1>4. /\ \A c \in Buffer : content'[c] = IF c = b THEN new ELSE content[c]
      /\ \A s \in Receiver : to_come'[s] = IF s = r THEN Tail(q) ELSE to_come[s]
  BY <1>1, <1>2 DEF TypeInv, PathTypes
<1> DEFINE rest == Tail(q)
<1> HIDE DEF m, q, rest
<1>5. /\ DOMAIN new = DOMAIN old \cup {e} /\ new[e] = m
      /\ \A k \in DOMAIN old : new[k] = old[k] /\ k # e
  <2>1. /\ DOMAIN new = DOMAIN old \cup {e} /\ new[e] = m
        /\ \A k \in DOMAIN old : k \in Nat \ {0} /\ k < e /\ new[k] = old[k]
    <3> HIDE DEF old
    <3> QED BY <1>2, <1>3, AppendedPlaces
  <2>2. QED  BY <1>2, <2>1, LenProperties
<1> HIDE DEF new, e
<1>6. \A x : Waits(x)' = Waits(x) /\ Inserted(x)' = Inserted(x)
  BY <1>1 DEF Waits, Inserted
<1>7. /\ \A c \in Buffer : \A k \in DOMAIN content[c] : content[c][k] # m
      /\ ~Waits(m) /\ ~Inserted(m)
  BY <1>3 DEF PlaceInv, InOnce, q
<1>8. /\ \A s \in Receiver : \A i \in DOMAIN to_come'[s] : \E k \in DOMAIN to_come[s] :
           /\ to_come'[s][i] = to_come[s][k] /\ to_come[s][k] # m
           /\ k = IF s = r THEN i + 1 ELSE i
  <2> SUFFICES ASSUME NEW s \in Receiver, NEW i \in DOMAIN to_come'[s]
               PROVE  \E k \in DOMAIN to_come[s] :
                        /\ to_come'[s][i] = to_come[s][k] /\ to_come[s][k] # m
                        /\ k = IF s = r THEN i + 1 ELSE i
    OBVIOUS
  <2>0. \A u \in Receiver : \A k \in DOMAIN to_come[u] : to_come[u][k] = q[1] => u = r /\ k = 1
    BY <1>3 DEF PlaceInv, InOnce, q
  <2>1. CASE s = r
    <3>1. i \in DOMAIN rest /\ to_come'[s][i] = rest[i]
      BY <1>4, <2>1 DEF rest
    <3>2. i + 1 \in DOMAIN q /\ rest[i] = q[i + 1] /\ i + 1 # 1
      BY <1>3, <3>1 DEF rest
    <3>3. q = to_come[s]
      BY <2>1 DEF q
    <3>4. QED  BY <1>3, <2>0, <2>1, <3>1, <3>2, <3>3
  <2>2. CASE s # r
    BY <1>3, <1>4, <2>0, <2>2
  <2>3. QED  BY <2>1, <2>2
<1>9. InOnce'
  <2>1. \A c, d \in Buffer : \A i \in DOMAIN content'[c], k \in DOMAIN content'[d] :
          content'[c][i] = content'[d][k] => c = d /\ i = k
    BY <1>4, <1>5, <1>7 DEF PlaceInv, InOnce
  <2>2. \A s, u \in Receiver : \A i \in DOMAIN to_come'[s], k \in DOMAIN to_come'[u] :
          to_come'[s][i] = to_come'[u][k] => s = u /\ i = k
    <3> SUFFICES ASSUME NEW s \in Receiver, NEW u \in Receiver,
                        NEW i \in DOMAIN to_come'[s], NEW k \in DOMAIN to_come'[u],
                        to_come'[s][i] = to_come'[u][k]
                 PROVE  s = u /\ i = k
      OBVIOUS
    <3>1. PICK i0 \in DOMAIN to_come[s] : /\ to_come'[s][i] = to_come[s][i0]
                                          /\ i0 = IF s = r THEN i + 1 ELSE i
      BY <1>8
    <3>2. PICK k0 \in DOMAIN to_come[u] : /\ to_come'[u][k] = to_come[u][k0]
                                          /\ k0 = IF u = r THEN k + 1 ELSE k
      BY <1>8
    <3>3. s = u /\ i0 = k0
      <4>1. to_come[s][i0] = to_come[u][k0]
        BY <3>1, <3>2
      <4>2. QED  BY <4>1 DEF PlaceInv, InOnce
    <3>4. s = r => i \in Nat /\ k \in Nat
      BY <1>3, <1>4, <3>3
    <3>5. CASE s = r
      <4>1. i + 1 = k + 1 /\ i \in Nat /\ k \in Nat
        BY <3>1, <3>2, <3>3, <3>4, <3>5
      <4>2. QED  BY <3>3, <4>1
    <3>6. CASE s # r
      BY <3>1, <3>2, <3>3, <3>6
    <3>7. QED  BY <3>5, <3>6
  <2>3. \A s \in Receiver : \A i \in DOMAIN to_come'[s] :
          /\ \A c \in Buffer : \A k \in DOMAIN content'[c] : to_come'[s][i] # content'[c][k]
          /\ ~Waits(to_come'[s][i]) /\ ~Inserted(to_come'[s][i])
    BY <1>4, <1>5, <1>8 DEF PlaceInv, InOnce
  <2>4. QED  BY <1>6, <2>1, <2>2, <2>3 DEF InOnce
<1>10. NotHandedOn'
  BY <1>1, <1>4, <1>5, <1>6, <1>7 DEF PlaceInv, NotHandedOn
<1>11. PartsOfBuffer'
  BY <1>1, <1>2, <1>4 DEF PlaceInv, PartsOfBuffer
<1>12. QueuedOnce' /\ Counted'
  BY <1>1, <1>6 DEF PlaceInv, QueuedOnce, Counted
<1>13. QED  BY <1>9, <1>10, <1>11, <1>12 DEF PlaceInv

\* TopicOrder goes through the topics, each once; no topic is another step of a job.
LEMMA Topics ==
  /\ {"bad", "none", "sort", "finish"} \cap Topic = {} /\ Len(TopicOrder) \in Nat
  /\ DOMAIN TopicOrder = 1..Len(TopicOrder) /\ 1 \in DOMAIN TopicOrder
  /\ \A n \in DOMAIN TopicOrder : n \in Nat /\ n >= 1 /\ TopicOrder[n] \in Topic
  /\ \A t \in Topic : \E n \in DOMAIN TopicOrder : t = TopicOrder[n]
  /\ \A n, k \in DOMAIN TopicOrder : TopicOrder[n] = TopicOrder[k] => n = k
<1>1. TopicOrder \in Seq(Topic) /\ TopicOrder # <<>> /\ IsInjective(TopicOrder)
  BY MulticastAssumption
<1>2. /\ Len(TopicOrder) \in Nat \ {0} /\ DOMAIN TopicOrder = 1..Len(TopicOrder)
  BY <1>1, LenProperties, EmptySeq
<1>3. QED
  BY <1>1, <1>2, MulticastAssumption DEF Topic, ToSet, IsInjective

\* A message of a known topic goes into that topic's batch, at its place.
LEMMA SortKeepsPlaces ==
  ASSUME TypeInv, PlaceInv, NEW b \in Buffer, Sort(b)
  PROVE  PlaceInv'
<1> DEFINE made == [t \in Topic |-> Sorted(b, t)]
           step == TopicOrder[1]
<1>1. /\ job[b] = "sort" /\ job' = [job EXCEPT ![b] = step]
      /\ batches' = [batches EXCEPT ![b] = made]
      /\ UNCHANGED <<content, to_come, query_queue, inserted>>
  BY DEF Sort, incoming
<1>2. \A t \in Topic : \A i \in DOMAIN made[t] :
        /\ i \in DOMAIN content[b] /\ made[t][i] = content[b][i] /\ TopicOf[content[b][i]] = t
  BY DEF Sorted
<1> HIDE DEF made, step
<1>3. /\ \A c \in Buffer : job'[c] = IF c = b THEN step ELSE job[c]
      /\ \A c \in Buffer : batches'[c] = IF c = b THEN made ELSE batches[c]
  BY <1>1 DEF TypeInv, OwnerInv, HandTypes, PathTypes
<1>4. /\ step \notin {"none", "sort", "finish"}
      /\ \A n \in DOMAIN TopicOrder : step = TopicOrder[n] => n = 1
      /\ \A k \in DOMAIN TopicOrder : ~(k < 1)
  BY Topics DEF step
<1>5. \A x : Waits(x)' = Waits(x) /\ Inserted(x)' = Inserted(x)
  BY <1>1 DEF Waits, Inserted
<1>6. InOnce' /\ QueuedOnce' /\ Counted'
  BY <1>1, <1>5 DEF PlaceInv, InOnce, QueuedOnce, Counted
<1>7. NotHandedOn'
  BY <1>1, <1>2, <1>3, <1>4, <1>5 DEF PlaceInv, NotHandedOn
<1>8. PartsOfBuffer'
  <2>1. \A c \in Buffer, t \in Topic : \A i \in DOMAIN batches'[c][t] :
          /\ i \in DOMAIN content[c] /\ batches'[c][t][i] = content[c][i]
          /\ TopicOf[content[c][i]] = t /\ job'[c] \notin {"none", "sort"}
    BY <1>2, <1>3, <1>4 DEF PlaceInv, PartsOfBuffer
  <2>2. \A c \in Buffer : job'[c] = "finish" => \A t \in Topic : DOMAIN batches'[c][t] = {}
    BY <1>3, <1>4 DEF PlaceInv, PartsOfBuffer
  <2>3. \A c \in Buffer, n, k \in DOMAIN TopicOrder :
          job'[c] = TopicOrder[n] /\ k < n => DOMAIN batches'[c][TopicOrder[k]] = {}
    BY <1>3, <1>4 DEF PlaceInv, PartsOfBuffer
  <2>4. QED  BY <1>1, <2>1, <2>2, <2>3 DEF PartsOfBuffer
<1>9. QED  BY <1>6, <1>7, <1>8 DEF PlaceInv

\* What handing a batch on does: the topic's queue has it as its last, if it has rows.
LEMMA PushedBatch ==
  ASSUME TypeInv, NEW b \in Buffer, NEW t \in Topic,
         query_queue' = IF HasRows(b, t)
                    THEN [query_queue EXCEPT ![t] = Append(query_queue[t], batches[b][t])]
                    ELSE query_queue
  PROVE  \E e :
    /\ e \notin DOMAIN query_queue[t]
    /\ DOMAIN query_queue'[t] \subseteq DOMAIN query_queue[t] \cup {e}
    /\ DOMAIN query_queue[t] \subseteq DOMAIN query_queue'[t]
    /\ \A k \in DOMAIN query_queue[t] : query_queue'[t][k] = query_queue[t][k]
    /\ e \in DOMAIN query_queue'[t] => query_queue'[t][e] = batches[b][t]
    /\ DOMAIN batches[b][t] # {} => e \in DOMAIN query_queue'[t]
    /\ \A u \in Topic : u # t => query_queue'[u] = query_queue[u]
<1> DEFINE q == query_queue[t]
           x == batches[b][t]
           e == Len(q) + 1
<1>2. q \in Seq(Batch) /\ x \in Batch
  BY DEF TypeInv, PathTypes
<1>3. /\ DOMAIN Append(q, x) = DOMAIN q \cup {e}
      /\ \A k \in DOMAIN q : Append(q, x)[k] = q[k] /\ k # e
      /\ Append(q, x)[e] = x
  <2> HIDE DEF q, x
  <2>1. /\ DOMAIN Append(q, x) = DOMAIN q \cup {e} /\ Len(q) \in Nat
        /\ \A k \in DOMAIN q : k \in Nat \ {0} /\ k < e /\ Append(q, x)[k] = q[k]
        /\ Append(q, x)[e] = x
    BY <1>2, AppendedPlaces
  <2>2. QED  BY <2>1
<1> DEFINE v == Append(q, x)
<1>4. query_queue' = IF DOMAIN x # {} THEN [query_queue EXCEPT ![t] = v] ELSE query_queue
  BY DEF HasRows
<1> HIDE DEF v
<1>5. \A u \in Topic : query_queue'[u] = IF u = t /\ DOMAIN x # {} THEN v ELSE query_queue[u]
  BY <1>4 DEF TypeInv, PathTypes
<1>6. \A k \in DOMAIN q : k # e
  BY <1>3
<1> HIDE DEF e, x
<1>7. /\ DOMAIN v = DOMAIN q \cup {e} /\ v[e] = x
      /\ \A k \in DOMAIN q : v[k] = q[k]
  BY <1>3 DEF v
<1>8. /\ e \notin DOMAIN query_queue[t]
      /\ DOMAIN query_queue'[t] \subseteq DOMAIN query_queue[t] \cup {e}
      /\ DOMAIN query_queue[t] \subseteq DOMAIN query_queue'[t]
      /\ \A k \in DOMAIN query_queue[t] : query_queue'[t][k] = query_queue[t][k]
      /\ e \in DOMAIN query_queue'[t] => query_queue'[t][e] = x
      /\ DOMAIN x # {} => e \in DOMAIN query_queue'[t]
      /\ \A u \in Topic : u # t => query_queue'[u] = query_queue[u]
  <2>1. CASE DOMAIN x # {}
    BY <1>5, <1>6, <1>7, <2>1
  <2>2. CASE DOMAIN x = {}
    BY <1>5, <1>6, <2>2
  <2>3. QED  BY <2>1, <2>2
<1>9. QED  BY <1>8 DEF x

\* A batch handed on waits for its topic alone.
LEMMA PushKeepsPlaces ==
  ASSUME TypeInv, PlaceInv, NEW b \in Buffer, Push(b)
  PROVE  PlaceInv'
<1>1. PICK n \in DOMAIN TopicOrder :
        LET t == TopicOrder[n] IN
        /\ job[b] = t
        /\ query_queue' = IF HasRows(b, t)
                  THEN [query_queue EXCEPT ![t] = Append(@, batches[b][t])]
                  ELSE query_queue
        /\ batches' = [batches EXCEPT ![b][t] = <<>>]
        /\ job' = [job EXCEPT ![b] = IF n < Len(TopicOrder) THEN TopicOrder[n + 1]
                                     ELSE "finish"]
        /\ UNCHANGED <<content, to_come, inserted>>
  BY DEF Push, incoming
<1> DEFINE t == TopicOrder[n]
           x == batches[b][t]
           step == IF n < Len(TopicOrder) THEN TopicOrder[n + 1] ELSE "finish"
<1>2. PICK e :
    /\ e \notin DOMAIN query_queue[t]
    /\ DOMAIN query_queue'[t] \subseteq DOMAIN query_queue[t] \cup {e}
    /\ DOMAIN query_queue[t] \subseteq DOMAIN query_queue'[t]
    /\ \A k \in DOMAIN query_queue[t] : query_queue'[t][k] = query_queue[t][k]
    /\ e \in DOMAIN query_queue'[t] => query_queue'[t][e] = batches[b][t]
    /\ DOMAIN batches[b][t] # {} => e \in DOMAIN query_queue'[t]
    /\ \A u \in Topic : u # t => query_queue'[u] = query_queue[u]
  <2>1. query_queue' = IF HasRows(b, t)
                    THEN [query_queue EXCEPT ![t] = Append(query_queue[t], batches[b][t])]
                    ELSE query_queue
    BY <1>1
  <2>2. t \in Topic
    BY Topics
  <2> HIDE DEF t
  <2>3. QED  BY <2>1, <2>2, PushedBatch
<1>3. /\ t \in Topic /\ job[b] = t /\ job' = [job EXCEPT ![b] = step] /\ DOMAIN <<>> = {}
      /\ UNCHANGED <<content, to_come, inserted>>
  BY <1>1, Topics
<1>4. /\ \A c \in Buffer : job'[c] = IF c = b THEN step ELSE job[c]
      /\ \A c \in Buffer, u \in Topic :
           batches'[c][u] = IF c = b /\ u = t THEN <<>> ELSE batches[c][u]
  BY <1>1, <1>3 DEF TypeInv, OwnerInv, HandTypes, PathTypes
<1>5. /\ step \notin {"none", "sort"}
      /\ step = "finish" => \A k \in DOMAIN TopicOrder : k < n \/ k = n
      /\ \A m \in DOMAIN TopicOrder : step = TopicOrder[m] =>
           \A k \in DOMAIN TopicOrder : k < m => k < n \/ k = n
  <2>1. CASE n < Len(TopicOrder)
    <3>1. n + 1 \in DOMAIN TopicOrder /\ step = TopicOrder[n + 1] /\ n \in Nat
      BY <2>1, Topics
    <3>2. QED  BY <3>1, Topics
  <2>2. CASE ~(n < Len(TopicOrder))
    <3>1. step = "finish"
      BY <2>2
    <3>2. QED  BY <2>2, <3>1, Topics
  <2>3. QED  BY <2>1, <2>2
<1> HIDE DEF step
<1>6. /\ \A i \in DOMAIN x : /\ i \in DOMAIN content[b] /\ x[i] = content[b][i]
                             /\ TopicOf[content[b][i]] = t /\ ~Waits(x[i]) /\ ~Inserted(x[i])
      /\ \A m \in DOMAIN TopicOrder : t = TopicOrder[m] => m = n
  BY <1>3, Topics DEF PlaceInv, PartsOfBuffer, NotHandedOn
<1>7. \A m : /\ Waits(m)' => Waits(m) \/ \E i \in DOMAIN x : x[i] = m
             /\ Inserted(m)' = Inserted(m)
  <2>1. \A m : Inserted(m)' = Inserted(m)
    BY <1>3 DEF Inserted
  <2> SUFFICES ASSUME NEW m, Waits(m)', ~Waits(m) PROVE \E i \in DOMAIN x : x[i] = m
    BY <2>1
  <2>2. PICK u \in Topic : \E k \in DOMAIN query_queue'[u] :
               \E i \in DOMAIN query_queue'[u][k] : query_queue'[u][k][i] = m
    BY DEF Waits
  <2>3. PICK k \in DOMAIN query_queue'[u] :
               \E i \in DOMAIN query_queue'[u][k] : query_queue'[u][k][i] = m
    BY <2>2
  <2>4. ~(k \in DOMAIN query_queue[u] /\ query_queue'[u][k] = query_queue[u][k])
    BY <2>3 DEF Waits
  <2>5. u = t /\ k = e
    BY <1>2, <2>4
  <2>6. QED  BY <1>2, <2>3, <2>5
<1> HIDE DEF t
<1>8. InOnce'
  BY <1>3, <1>6, <1>7 DEF PlaceInv, InOnce
<1>9. NotHandedOn'
  <2>1. ASSUME NEW c \in Buffer, job'[c] \in {"none", "sort"}, NEW i \in DOMAIN content[c]
        PROVE  \A m : m = content[c][i] => ~Waits(m)' /\ ~Inserted(m)
    <3>1. c # b /\ job[c] \in {"none", "sort"}
      BY <1>4, <1>5, <2>1
    <3>2. \A k \in DOMAIN content[b] : content[c][i] # content[b][k]
      BY <3>1 DEF PlaceInv, InOnce
    <3>3. ~Waits(content[c][i]) /\ ~Inserted(content[c][i])
      BY <3>1 DEF PlaceInv, NotHandedOn
    <3>4. QED  BY <1>6, <1>7, <3>2, <3>3
  <2>2. ASSUME NEW c \in Buffer, NEW u \in Topic, NEW i \in DOMAIN batches'[c][u],
               NEW m, m = batches'[c][u][i]
        PROVE  ~Waits(m)' /\ ~Inserted(m)
    <3>1. /\ ~(c = b /\ u = t) /\ batches'[c][u] = batches[c][u] /\ i \in DOMAIN batches[c][u]
      BY <1>3, <1>4
    <3>2. /\ i \in DOMAIN content[c] /\ batches[c][u][i] = content[c][i]
          /\ TopicOf[content[c][i]] = u
      BY <3>1 DEF PlaceInv, PartsOfBuffer
    <3>3. \A k \in DOMAIN x : content[c][i] # x[k]
      BY <1>6, <3>1, <3>2 DEF PlaceInv, InOnce
    <3>4. ~Waits(m) /\ ~Inserted(m) /\ m = content[c][i]
      BY <2>2, <3>1, <3>2 DEF PlaceInv, NotHandedOn
    <3>5. QED  BY <1>7, <3>3, <3>4
  <2>3. QED  BY <1>3, <1>7, <2>1, <2>2 DEF NotHandedOn
<1>10. PartsOfBuffer'
  <2>1. \A c \in Buffer, u \in Topic : \A i \in DOMAIN batches'[c][u] :
          /\ i \in DOMAIN content[c] /\ batches'[c][u][i] = content[c][i]
          /\ TopicOf[content[c][i]] = u /\ job'[c] \notin {"none", "sort"}
    BY <1>3, <1>4, <1>5 DEF PlaceInv, PartsOfBuffer
  <2>0. \A k \in DOMAIN TopicOrder : k < n \/ k = n => DOMAIN batches'[b][TopicOrder[k]] = {}
    BY <1>3, <1>4, Topics DEF PlaceInv, PartsOfBuffer, t
  <2>2. \A c \in Buffer : job'[c] = "finish" => \A u \in Topic : DOMAIN batches'[c][u] = {}
    <3>1. step = "finish" => \A u \in Topic : DOMAIN batches'[b][u] = {}
      BY <1>5, <2>0, Topics
    <3>2. QED  BY <1>4, <3>1 DEF PlaceInv, PartsOfBuffer
  <2>3. \A c \in Buffer, m, k \in DOMAIN TopicOrder :
          job'[c] = TopicOrder[m] /\ k < m => DOMAIN batches'[c][TopicOrder[k]] = {}
    <3> SUFFICES ASSUME NEW c \in Buffer, NEW m \in DOMAIN TopicOrder,
                        NEW k \in DOMAIN TopicOrder, job'[c] = TopicOrder[m], k < m
                 PROVE  DOMAIN batches'[c][TopicOrder[k]] = {}
      OBVIOUS
    <3>1. CASE c = b
      BY <1>4, <1>5, <2>0, <3>1
    <3>2. CASE c # b
      BY <1>4, <3>2, Topics DEF PlaceInv, PartsOfBuffer
    <3>3. QED  BY <3>1, <3>2
  <2>4. QED  BY <1>3, <2>1, <2>2, <2>3 DEF PartsOfBuffer
<1>11. QueuedOnce'
  <2>1. \A u \in Topic : \A l \in DOMAIN query_queue'[u] :
          \/ l \in DOMAIN query_queue[u] /\ query_queue'[u][l] = query_queue[u][l]
          \/ u = t /\ l = e /\ query_queue'[u][l] = x
    BY <1>2
  <2>2. \A u \in Topic : \A l \in DOMAIN query_queue[u] : \A k \in DOMAIN query_queue[u][l] :
          Waits(query_queue[u][l][k])
    BY DEF Waits
  <2>3. \A k, l \in DOMAIN x : x[k] = x[l] => k = l
    BY <1>6 DEF PlaceInv, InOnce
  <2>4. \A u \in Topic : \A p \in DOMAIN query_queue'[u] : \A i \in DOMAIN query_queue'[u][p] :
          TopicOf[query_queue'[u][p][i]] = u
    BY <1>6, <2>1 DEF PlaceInv, QueuedOnce
  <2>5. \A u \in Topic : \A p \in DOMAIN query_queue'[u] : \A i \in DOMAIN query_queue'[u][p] :
          \A m : m = query_queue'[u][p][i] => ~Inserted(m)'
    BY <1>6, <1>7, <2>1 DEF PlaceInv, QueuedOnce
  <2>6. ASSUME NEW u \in Topic, NEW p \in DOMAIN query_queue'[u],
               NEW i \in DOMAIN query_queue'[u][p], NEW l \in DOMAIN query_queue'[u],
               NEW k \in DOMAIN query_queue'[u][l], query_queue'[u][p][i] = query_queue'[u][l][k]
        PROVE  p = l /\ i = k
    <3>1. CASE p \in DOMAIN query_queue[u] /\ l \in DOMAIN query_queue[u]
      <4>1. query_queue'[u][p] = query_queue[u][p] /\ query_queue'[u][l] = query_queue[u][l]
        BY <1>2, <3>1
      <4>2. QED  BY <2>6, <3>1, <4>1 DEF PlaceInv, QueuedOnce
    <3>2. CASE p \in DOMAIN query_queue[u] /\ l \notin DOMAIN query_queue[u]
      <4>1. /\ query_queue'[u][l] = x /\ query_queue'[u][p] = query_queue[u][p]
        BY <1>2, <2>1, <3>2
      <4>2. QED  BY <1>6, <2>2, <2>6, <3>2, <4>1
    <3>3. CASE p \notin DOMAIN query_queue[u] /\ l \in DOMAIN query_queue[u]
      <4>1. /\ query_queue'[u][p] = x /\ query_queue'[u][l] = query_queue[u][l]
        BY <1>2, <2>1, <3>3
      <4>2. QED  BY <1>6, <2>2, <2>6, <3>3, <4>1
    <3>4. CASE p \notin DOMAIN query_queue[u] /\ l \notin DOMAIN query_queue[u]
      BY <2>1, <2>3, <2>6, <3>4
    <3>5. QED  BY <3>1, <3>2, <3>3, <3>4
  <2>7. QED  BY <2>4, <2>5, <2>6 DEF QueuedOnce
<1>12. Counted'
  BY <1>3 DEF PlaceInv, Counted
<1>13. QED  BY <1>8, <1>9, <1>10, <1>11, <1>12 DEF PlaceInv

\* In a topic's queue, and that of no other: how often a message waits there is whether.
WaitsFor(t, m) == \E n \in DOMAIN query_queue[t] :
                    \E i \in DOMAIN query_queue[t][n] : query_queue[t][n][i] = m

LEMMA RowsOfMessage ==
  ASSUME PlaceInv, NEW t \in Topic, NEW m
  PROVE  Cardinality(Rows(t, m)) = IF WaitsFor(t, m) THEN 1 ELSE 0
<1>1. \A p : p \in Rows(t, m) <=>
               \E n \in DOMAIN query_queue[t] : \E i \in DOMAIN query_queue[t][n] :
                 p = <<n, i>> /\ query_queue[t][n][i] = m
  BY DEF Rows
<1>2. CASE WaitsFor(t, m)
  <2>1. PICK n \in DOMAIN query_queue[t] :
               \E i \in DOMAIN query_queue[t][n] : query_queue[t][n][i] = m
    BY <1>2 DEF WaitsFor
  <2>2. PICK i \in DOMAIN query_queue[t][n] : query_queue[t][n][i] = m
    BY <2>1
  <2>3. \A l \in DOMAIN query_queue[t] : \A k \in DOMAIN query_queue[t][l] :
          query_queue[t][l][k] = m => l = n /\ k = i
    BY <2>2 DEF PlaceInv, QueuedOnce
  <2>4. \A p : p \in Rows(t, m) <=> p = <<n, i>>
    BY <1>1, <2>2, <2>3
  <2>5. Rows(t, m) = {<<n, i>>}
    BY <2>4
  <2>6. QED  BY <1>2, <2>5, FS_Singleton
<1>3. CASE ~WaitsFor(t, m)
  <2>1. Rows(t, m) = {}
    BY <1>1, <1>3 DEF WaitsFor
  <2>2. QED  BY <1>3, <2>1, FS_EmptySet
<1>4. QED  BY <1>2, <1>3

\* What a database job finds is counted for its topic, and waits no more.
LEMMA InsertMoves ==
  ASSUME TypeInv, PlaceInv, NEW t \in Topic, Insert(t)
  PROVE  /\ inserted' \in [Message -> [Topic -> Nat]]
         /\ \A m \in Message, u \in Topic :
              inserted'[m][u] = IF u = t /\ WaitsFor(t, m) THEN inserted[m][u] + 1
                                                           ELSE inserted[m][u]
         /\ \A u \in Topic : query_queue'[u] = IF u = t THEN <<>> ELSE query_queue[u]
         /\ \A m \in Message : Waits(m)' \/ Inserted(m)' <=> Waits(m) \/ Inserted(m)
<1>1. /\ query_queue' = [query_queue EXCEPT ![t] = <<>>]
      /\ inserted' = [m \in Message |->
                        [inserted[m] EXCEPT ![t] = @ + Cardinality(Rows(t, m))]]
  BY DEF Insert
<1>2. inserted \in [Message -> [Topic -> Nat]]
  BY DEF PlaceInv, Counted
<1>3. \A m : Cardinality(Rows(t, m)) = IF WaitsFor(t, m) THEN 1 ELSE 0
  BY RowsOfMessage
<1>4. ASSUME NEW m \in Message
      PROVE  /\ inserted'[m] \in [Topic -> Nat]
             /\ \A u \in Topic :
                  inserted'[m][u] = IF u = t /\ WaitsFor(t, m) THEN inserted[m][u] + 1
                                                               ELSE inserted[m][u]
  <2>1. inserted'[m] = [inserted[m] EXCEPT ![t] = inserted[m][t] + Cardinality(Rows(t, m))]
    BY <1>1
  <2>2. inserted[m] \in [Topic -> Nat]
    BY <1>2
  <2>3. inserted[m][t] + Cardinality(Rows(t, m))
          = IF WaitsFor(t, m) THEN inserted[m][t] + 1 ELSE inserted[m][t]
    BY <1>3, <2>2
  <2>4. inserted'[m] = [inserted[m] EXCEPT ![t] = IF WaitsFor(t, m) THEN inserted[m][t] + 1
                                                                    ELSE inserted[m][t]]
    BY <2>1, <2>3
  <2>5. QED  BY <2>2, <2>4
<1>5. inserted' \in [Message -> [Topic -> Nat]]
  BY <1>1, <1>4
<1>6. \A u \in Topic : query_queue'[u] = IF u = t THEN <<>> ELSE query_queue[u]
  BY <1>1 DEF TypeInv, PathTypes
<1>7. ASSUME NEW m \in Message
      PROVE  Waits(m)' \/ Inserted(m)' <=> Waits(m) \/ Inserted(m)
  <2>1. Waits(m)' => Waits(m)
    BY <1>6 DEF Waits
  <2>2. Waits(m) => Waits(m)' \/ WaitsFor(t, m)
    BY <1>6 DEF Waits, WaitsFor
  <2>3. WaitsFor(t, m) => Waits(m)
    BY DEF Waits, WaitsFor
  <2>4. /\ Inserted(m) => Inserted(m)'
        /\ Inserted(m)' => Inserted(m) \/ WaitsFor(t, m)
        /\ WaitsFor(t, m) => Inserted(m)'
    <3>1. \A u \in Topic : inserted[m][u] \in Nat
      BY <1>2
    <3>2. QED  BY <1>4, <3>1 DEF Inserted
  <2>5. QED  BY <2>1, <2>2, <2>3, <2>4
<1>8. QED  BY <1>4, <1>5, <1>6, <1>7

LEMMA InsertKeepsPlaces ==
  ASSUME TypeInv, PlaceInv, NEW t \in Topic, Insert(t)
  PROVE  PlaceInv'
<1>1. UNCHANGED <<content, to_come, job, batches>>
  BY DEF Insert, incoming
<1>2. /\ \A m \in Message, u \in Topic :
           inserted'[m][u] = IF u = t /\ WaitsFor(t, m) THEN inserted[m][u] + 1
                                                        ELSE inserted[m][u]
      /\ \A u \in Topic : query_queue'[u] = IF u = t THEN <<>> ELSE query_queue[u]
      /\ \A m \in Message : Waits(m)' \/ Inserted(m)' <=> Waits(m) \/ Inserted(m)
      /\ inserted' \in [Message -> [Topic -> Nat]]
  BY InsertMoves
<1>3. /\ \A b \in Buffer : \A i \in DOMAIN content[b] : content[b][i] \in Message
      /\ \A r \in Receiver : \A i \in DOMAIN to_come[r] : to_come[r][i] \in Message
      /\ \A u \in Topic : \A n \in DOMAIN query_queue[u] : \A i \in DOMAIN query_queue[u][n] :
           query_queue[u][n][i] \in Message
  <2>1. \A f \in Batch : \A i \in DOMAIN f : f[i] \in Message
    BY DEF Batch
  <2>2. \A u \in Topic : \A n \in DOMAIN query_queue[u] : query_queue[u][n] \in Batch
    BY DEF TypeInv, PathTypes
  <2>3. QED  BY <2>1, <2>2 DEF TypeInv, PathTypes
<1>4. InOnce'
  <2>1. ASSUME NEW r \in Receiver, NEW i \in DOMAIN to_come[r], NEW m, m = to_come[r][i]
        PROVE  ~Waits(m)' /\ ~Inserted(m)'
    BY <1>2, <1>3, <2>1 DEF PlaceInv, InOnce
  <2>2. QED  BY <1>1, <2>1 DEF PlaceInv, InOnce
<1>5. NotHandedOn'
  <2>1. ASSUME NEW b \in Buffer, job[b] \in {"none", "sort"}, NEW i \in DOMAIN content[b],
               NEW m, m = content[b][i]
        PROVE  ~Waits(m)' /\ ~Inserted(m)'
    BY <1>2, <1>3, <2>1 DEF PlaceInv, NotHandedOn
  <2>2. ASSUME NEW b \in Buffer, NEW u \in Topic, NEW i \in DOMAIN batches[b][u],
               NEW m, m = batches[b][u][i]
        PROVE  ~Waits(m)' /\ ~Inserted(m)'
    <3>1. m \in Message
      BY <1>3, <2>2 DEF PlaceInv, PartsOfBuffer
    <3>2. ~Waits(m) /\ ~Inserted(m)
      BY <2>2 DEF PlaceInv, NotHandedOn
    <3>3. QED  BY <1>2, <3>1, <3>2
  <2>3. QED  BY <1>1, <2>1, <2>2 DEF NotHandedOn
<1>6. PartsOfBuffer'
  BY <1>1 DEF PlaceInv, PartsOfBuffer
<1>7. QueuedOnce'
  <2>1. \A u \in Topic : \A n \in DOMAIN query_queue'[u] :
          u # t /\ n \in DOMAIN query_queue[u] /\ query_queue'[u] = query_queue[u]
    BY <1>2
  <2>2. ASSUME NEW u \in Topic, u # t, NEW n \in DOMAIN query_queue[u],
               NEW i \in DOMAIN query_queue[u][n], NEW m, m = query_queue[u][n][i]
        PROVE  ~Inserted(m)'
    <3>1. m \in Message /\ TopicOf[m] = u /\ ~Inserted(m)
      BY <1>3, <2>2 DEF PlaceInv, QueuedOnce
    <3>2. ~WaitsFor(t, m)
      BY <2>2, <3>1 DEF PlaceInv, QueuedOnce, WaitsFor
    <3>3. QED  BY <1>2, <3>1, <3>2 DEF Inserted
  <2>3. QED  BY <2>1, <2>2 DEF PlaceInv, QueuedOnce
<1>8. Counted'
  <2>1. ASSUME NEW m \in Message, NEW u \in Topic
        PROVE  inserted'[m][u] <= IF TopicOf[m] = u THEN 1 ELSE 0
    <3>1. CASE u = t /\ WaitsFor(t, m)
      <4>1. TopicOf[m] = t /\ inserted[m][t] = 0
        BY <3>1 DEF PlaceInv, QueuedOnce, WaitsFor, Inserted
      <4>2. QED  BY <1>2, <3>1, <4>1
    <3>2. CASE ~(u = t /\ WaitsFor(t, m))
      BY <1>2, <3>2 DEF PlaceInv, Counted
    <3>3. QED  BY <3>1, <3>2
  <2>2. QED  BY <1>2, <2>1 DEF Counted
<1>9. QED  BY <1>4, <1>5, <1>6, <1>7, <1>8 DEF PlaceInv

\* A step that moves no message.
LEMMA SamePlaces ==
  ASSUME PlaceInv, UNCHANGED <<content, to_come, batches, query_queue, inserted>>,
         \/ UNCHANGED job
         \/ Dispatch /\ TypeInv
  PROVE  PlaceInv'
<1>1. \A m : Waits(m)' = Waits(m) /\ Inserted(m)' = Inserted(m)
  BY DEF Waits, Inserted
<1>2. InOnce' /\ QueuedOnce' /\ Counted'
  BY <1>1 DEF PlaceInv, InOnce, QueuedOnce, Counted
<1>3. CASE UNCHANGED job
  BY <1>1, <1>2, <1>3 DEF PlaceInv, NotHandedOn, PartsOfBuffer
<1>4. CASE Dispatch /\ TypeInv
  <2> DEFINE b == Head(local_msg_queue)
  <2>1. local_msg_queue # <<>> /\ job' = [job EXCEPT ![b] = "sort"]
    BY <1>4 DEF Dispatch
  <2>2. b \in Handed /\ b \in Buffer
    BY <1>4, <2>1, TailOfQueue DEF TypeInv, OwnerInv, HandTypes, Handed
  <2> HIDE DEF b
  <2>3. /\ job[b] = "none" /\ \A c \in Buffer : job'[c] = IF c = b THEN "sort" ELSE job[c]
    BY <1>4, <2>1, <2>2 DEF TypeInv, OwnerInv, HandTypes
  <2>4. NotHandedOn'
    BY <1>1, <2>3 DEF PlaceInv, NotHandedOn
  <2>5. PartsOfBuffer'
    <3>1. \A n \in DOMAIN TopicOrder : TopicOrder[n] # "sort"
      BY Topics
    <3>2. QED  BY <2>3, <3>1 DEF PlaceInv, PartsOfBuffer
  <2>6. QED  BY <1>2, <2>4, <2>5 DEF PlaceInv
<1>5. QED  BY <1>3, <1>4

\* A receiver that takes a free buffer, and a job that ends, leave one empty.
LEMMA NewBufferKeepsPlaces ==
  ASSUME TypeInv, PlaceInv, NEW r \in Receiver, FillNewBuffer(r),
         UNCHANGED <<to_come, batches, job, query_queue, inserted>>
  PROVE  PlaceInv'
<1>1. PICK new \in Buffer : Free(new) /\ content' = [content EXCEPT ![new] = <<>>]
  BY NewBuffer DEF TypeInv
<1>2. /\ job'[new] = "none" /\ content'[new] = <<>>
      /\ \A c \in Buffer : c # new => content'[c] = content[c]
  BY <1>1 DEF Free, TypeInv, PathTypes
<1>3. \A t \in Topic : DOMAIN batches'[new][t] = {}
  BY <1>2 DEF PlaceInv, PartsOfBuffer
<1>4. QED  BY <1>2, <1>3, EmptyingKeepsPlaces

LEMMA EndKeepsPlaces ==
  ASSUME TypeInv, PlaceInv, NEW b \in Buffer, Finish(b) \/ JobFails(b)
  PROVE  PlaceInv'
<1>1. /\ content' = [content EXCEPT ![b] = <<>>] /\ job' = [job EXCEPT ![b] = "none"]
      /\ UNCHANGED <<to_come, query_queue, inserted>>
      /\ \/ job[b] = "finish" /\ batches' = batches
         \/ batches' = [batches EXCEPT ![b] = NoBatches]
  BY DEF Finish, JobFails, ReturnBuffer, Emptied
<1>2. /\ content'[b] = <<>> /\ job'[b] = "none"
      /\ \A c \in Buffer : c # b =>
           content'[c] = content[c] /\ job'[c] = job[c] /\ batches'[c] = batches[c]
  BY <1>1 DEF TypeInv, OwnerInv, HandTypes, PathTypes
<1>3. \A t \in Topic : DOMAIN batches'[b][t] = {}
  <2>1. CASE job[b] = "finish" /\ batches' = batches
    BY <2>1 DEF PlaceInv, PartsOfBuffer
  <2>2. CASE batches' = [batches EXCEPT ![b] = NoBatches]
    BY <2>2 DEF NoBatches, TypeInv, PathTypes
  <2>3. QED  BY <1>1, <2>1, <2>2
<1>4. QED  BY <1>1, <1>2, <1>3, EmptyingKeepsPlaces

LEMMA PlacesInductive == ASSUME TypeInv, PlaceInv, [Next]_vars PROVE PlaceInv'
<1> USE DEF incoming, workers
<1>1. ASSUME NEW r \in Receiver, ReceiverNext(r) PROVE PlaceInv'
  <2>1. CASE Transfer(r)
    BY <2>1, NewBufferKeepsPlaces DEF Transfer
  <2>2. CASE Receive(r)
    BY <2>2, ReceiveKeepsPlaces
  <2>3. CASE NoTransfer(r) \/ NoMessage(r) \/ PollFails(r) \/ Send(r) \/ FetchOutgoing(r)
    <3>1. UNCHANGED <<content, to_come, batches, query_queue, inserted, job>>
      BY <2>3 DEF NoTransfer, NoMessage, PollFails, Send, FetchOutgoing
    <3>2. QED  BY <3>1, SamePlaces
  <2>4. QED  BY <1>1, <2>1, <2>2, <2>3 DEF ReceiverNext
<1>2. ASSUME NEW r \in Receiver, RestartNext(r) \/ Publish(r) PROVE PlaceInv'
  <2>1. CASE Initialise(r)
    BY <2>1, NewBufferKeepsPlaces DEF Initialise
  <2>2. CASE FinaliseIn(r) \/ FinaliseOut(r) \/ InitialiseFails(r) \/ Publish(r)
    <3>1. UNCHANGED <<content, to_come, batches, query_queue, inserted, job>>
      BY <2>2 DEF FinaliseIn, FinaliseOut, InitialiseFails, Publish
    <3>2. QED  BY <3>1, SamePlaces
  <2>3. QED  BY <1>2, <2>1, <2>2 DEF RestartNext
<1>3. ASSUME Take \/ Dispatch \/ UNCHANGED vars PROVE PlaceInv'
  <2>1. /\ UNCHANGED <<content, to_come, batches, query_queue, inserted>>
        /\ UNCHANGED job \/ Dispatch
    BY <1>3 DEF Take, Dispatch, vars
  <2>2. QED  BY <2>1, SamePlaces
<1>4. ASSUME NEW b \in Buffer, JobNext(b) PROVE PlaceInv'
  BY <1>4, SortKeepsPlaces, PushKeepsPlaces, EndKeepsPlaces DEF JobNext
<1>5. ASSUME NEW t \in Topic, Insert(t) PROVE PlaceInv'
  BY <1>5, InsertKeepsPlaces
<1>6. QED  BY <1>1, <1>2, <1>3, <1>4, <1>5 DEF Next

LEMMA PlacesInitially == Init => PlaceInv
<1> SUFFICES ASSUME Init PROVE PlaceInv
  OBVIOUS
<1>1. PICK load \in Load : to_come = load.in
  BY DEF Init
<1>2. /\ \A b \in Buffer : DOMAIN content[b] = {} /\ job[b] = "none"
      /\ \A b \in Buffer, t \in Topic : DOMAIN batches[b][t] = {}
      /\ \A t \in Topic : DOMAIN query_queue[t] = {}
      /\ inserted = [m \in Message |-> [t \in Topic |-> 0]]
  BY DEF Init, NoBatches
<1>3. \A r, s \in Receiver : \A i \in DOMAIN to_come[r], k \in DOMAIN to_come[s] :
        to_come[r][i] = to_come[s][k] => r = s /\ i = k
  BY <1>1, MulticastAssumption
<1>4. \A r \in Receiver : \A i \in DOMAIN to_come[r] : to_come[r][i] \in Message
  BY <1>1, MulticastAssumption
<1>5. \A m \in Message : ~Waits(m) /\ ~Inserted(m)
  BY <1>2 DEF Waits, Inserted
<1>6. InOnce
  BY <1>2, <1>3, <1>4, <1>5 DEF InOnce
<1>7. NotHandedOn /\ QueuedOnce /\ Counted
  BY <1>2 DEF NotHandedOn, QueuedOnce, Counted
<1>8. PartsOfBuffer
  BY <1>2, Topics DEF PartsOfBuffer
<1>9. QED  BY <1>6, <1>7, <1>8 DEF PlaceInv

\* A message is counted for its own topic alone, and once, though its buffer is used again
\* and again, and by another receiver after a restart.
THEOREM InsertedOnceEach == Spec => []InsertedOnce
<1>1. PlaceInv => InsertedOnce
  BY DEF PlaceInv, Counted, InsertedOnce
<1>2. TypeInv /\ PlaceInv /\ [Next]_vars => PlaceInv'
  BY PlacesInductive
<1>3. TypeInv /\ [Next]_vars => TypeInv'
  BY TypesInductive
<1>4. QED  BY <1>1, <1>2, <1>3, TypesInitially, PlacesInitially, PTL DEF Spec

-----------------------------------------------------------------------------
(* What the workers have.                                                  *)

\* A buffer the distributor or a job has, with its messages or what is left of them.
InBuffer(m, b) == \E i \in DOMAIN content[b] : content[b][i] = m
InBatch(m, b) == \E t \in Topic : \E i \in DOMAIN batches[b][t] : batches[b][t][i] = m
Held(m, b) == \/ (b \in ToSet(local_msg_queue) \/ job[b] = "sort") /\ InBuffer(m, b)
              \/ job[b] \notin {"none", "sort"} /\ InBatch(m, b)

LEMMA MessagesAtWorkers ==
  ASSUME TypeInv, PlaceInv, NEW m \in Message
  PROVE  m \in AtWorkers <=> Waits(m) \/ Inserted(m) \/ \E b \in Buffer : Held(m, b)
<1>1. /\ \A b : m \in ToSet(content[b]) <=> InBuffer(m, b)
      /\ \A b : m \in UNION {ToSet(batches[b][t]) : t \in Topic} <=> InBatch(m, b)
  BY DEF ToSet, InBuffer, InBatch
<1>2. \A b \in Working : m \in ReadyFor(b) <=> IF job[b] = "sort" THEN InBuffer(m, b)
                                                                 ELSE InBatch(m, b)
  BY <1>1 DEF ReadyFor
<1>3. m \in UNION {ToSet(q) : q \in UNION {ToSet(query_queue[t]) : t \in Topic}} <=> Waits(m)
  <2>1. \A q : q \in UNION {ToSet(query_queue[t]) : t \in Topic} <=>
                 \E t \in Topic : \E n \in DOMAIN query_queue[t] : q = query_queue[t][n]
    BY DEF ToSet
  <2>2. \A q : m \in ToSet(q) <=> \E i \in DOMAIN q : q[i] = m
    BY DEF ToSet
  <2> DEFINE Q == UNION {ToSet(query_queue[t]) : t \in Topic}
  <2> HIDE DEF Q
  <2>3. m \in UNION {ToSet(q) : q \in Q} <=> \E q \in Q : m \in ToSet(q)
    OBVIOUS
  <2>4. \A q : q \in Q <=> \E t \in Topic : \E n \in DOMAIN query_queue[t] : q = query_queue[t][n]
    BY <2>1 DEF Q
  <2>5. (\E q \in Q : m \in ToSet(q)) => Waits(m)
    BY <2>2, <2>4 DEF Waits
  <2>6. Waits(m) => \E q \in Q : m \in ToSet(q)
    <3> SUFFICES ASSUME Waits(m) PROVE \E q \in Q : m \in ToSet(q)
      OBVIOUS
    <3>1. PICK t \in Topic : \E n \in DOMAIN query_queue[t] :
                 \E i \in DOMAIN query_queue[t][n] : query_queue[t][n][i] = m
      BY DEF Waits
    <3>2. PICK n \in DOMAIN query_queue[t] :
                 \E i \in DOMAIN query_queue[t][n] : query_queue[t][n][i] = m
      BY <3>1
    <3>3. query_queue[t][n] \in Q /\ m \in ToSet(query_queue[t][n])
      BY <2>2, <2>4, <3>2
    <3>4. QED  BY <3>3
  <2>7. QED  BY <2>3, <2>5, <2>6 DEF Q
<1>4. (\E t \in Topic : inserted[m][t] > 0) <=> Inserted(m)
  BY DEF PlaceInv, Counted, Inserted
<1>5. \A b \in ToSet(local_msg_queue) : b \in Buffer
  BY DEF TypeInv, OwnerInv, HandTypes, ToSet
<1>6. /\ \A b \in Working : b \in Buffer /\ job[b] # "none"
      /\ \A b \in Buffer : job[b] # "none" => b \in Working
  BY DEF Working
<1>7. m \in AtWorkers <=>
        \/ \E b \in ToSet(local_msg_queue) : InBuffer(m, b)
        \/ \E b \in Working : m \in ReadyFor(b)
        \/ Waits(m) \/ Inserted(m)
  <2> DEFINE A == UNION {ToSet(content[b]) : b \in ToSet(local_msg_queue)}
             B == UNION {ReadyFor(b) : b \in Working}
             C == UNION {ToSet(q) : q \in UNION {ToSet(query_queue[t]) : t \in Topic}}
             D == {x \in Message : \E t \in Topic : inserted[x][t] > 0}
  <2>1. AtWorkers = A \cup B \cup C \cup D
    BY DEF AtWorkers
  <2>2. m \in A <=> \E b \in ToSet(local_msg_queue) : InBuffer(m, b)
    BY <1>1
  <2>3. m \in B <=> \E b \in Working : m \in ReadyFor(b)
    OBVIOUS
  <2>4. (m \in C <=> Waits(m)) /\ (m \in D <=> Inserted(m))
    BY <1>3, <1>4
  <2> HIDE DEF A, B, C, D
  <2>5. QED  BY <2>1, <2>2, <2>3, <2>4
<1>8. (\E b \in Buffer : Held(m, b)) <=>
        \/ \E b \in ToSet(local_msg_queue) : InBuffer(m, b)
        \/ \E b \in Working : m \in ReadyFor(b)
  BY <1>2, <1>5, <1>6 DEF Held
<1>9. QED  BY <1>7, <1>8

At(m) == Waits(m) \/ Inserted(m) \/ \E b \in Buffer : Held(m, b)

\* What the workers have stays as it is where a step leaves the buffers they have alone.
LEMMA OthersKeep ==
  ASSUME TypeInv, NEW m \in Message, NEW b, At(m), ~Held(m, b),
         UNCHANGED <<local_msg_queue, query_queue, inserted>>,
         \A c \in Buffer : c # b =>
           content'[c] = content[c] /\ job'[c] = job[c] /\ batches'[c] = batches[c]
  PROVE  At(m)'
<1>1. (Waits(m)' <=> Waits(m)) /\ (Inserted(m)' <=> Inserted(m))
  BY DEF Waits, Inserted
<1>2. \A c \in Buffer : Held(m, c) => Held(m, c)'
  BY DEF Held, InBuffer, InBatch
<1>3. QED  BY <1>1, <1>2 DEF At

\* Receivers only touch what is theirs or nobody's.
LEMMA ReceiversKeep ==
  ASSUME TypeInv, PlaceInv, NEW m \in Message, At(m), NEW r \in Receiver,
         ReceiverNext(r) \/ RestartNext(r) \/ Publish(r)
  PROVE  At(m)'
<1> USE DEF incoming, workers
<1>1. CASE Transfer(r) \/ Initialise(r)
  <2>1. FillNewBuffer(r) /\ UNCHANGED <<local_msg_queue, job, batches, query_queue, inserted>>
    BY <1>1 DEF Transfer, Initialise
  <2>2. PICK new \in Buffer : Free(new) /\ content' = [content EXCEPT ![new] = <<>>]
    BY <2>1, NewBuffer DEF TypeInv
  <2>3. ~Held(m, new)
    BY <2>2 DEF Free, Handed, Held
  <2>4. \A c \in Buffer : c # new => content'[c] = content[c]
    BY <2>2 DEF TypeInv, PathTypes
  <2>5. QED  BY <2>1, <2>3, <2>4, OthersKeep
<1>2. CASE Receive(r)
  <2> DEFINE b == in_local_queue[r]
  <2>1. /\ \A c \in Buffer : c # b => content'[c] = content[c]
        /\ UNCHANGED <<local_msg_queue, job, batches, query_queue, inserted>>
    BY <1>2 DEF Receive, TypeInv, PathTypes
  <2>2. ~Held(m, b)
    BY DEF TypeInv, OwnerInv, Handed, Held
  <2>3. QED  BY <2>1, <2>2, OthersKeep
<1>3. CASE \/ NoTransfer(r) \/ NoMessage(r) \/ PollFails(r) \/ Send(r) \/ FetchOutgoing(r)
           \/ FinaliseIn(r) \/ FinaliseOut(r) \/ InitialiseFails(r) \/ Publish(r)
  <2>1. UNCHANGED <<content, local_msg_queue, job, batches, query_queue, inserted>>
    BY <1>3 DEF NoTransfer, NoMessage, PollFails, Send, FetchOutgoing, FinaliseIn,
                FinaliseOut, InitialiseFails, Publish
  <2>2. QED  BY <2>1 DEF At, Held, InBuffer, InBatch, Waits, Inserted
<1>4. QED  BY <1>1, <1>2, <1>3 DEF ReceiverNext, RestartNext

\* A job moves its messages on until there are none left.
LEMMA JobsKeep ==
  ASSUME TypeInv, PlaceInv, NEW m \in Message, TopicOf[m] \in Topic, At(m),
         NEW b \in Buffer, JobNext(b), failed' = failed
  PROVE  At(m)'
<1>1. CASE Sort(b)
  <2>1. /\ job[b] = "sort" /\ job' = [job EXCEPT ![b] = TopicOrder[1]]
        /\ batches' = [batches EXCEPT ![b] = [t \in Topic |-> Sorted(b, t)]]
        /\ UNCHANGED <<content, local_msg_queue, query_queue, inserted>>
    BY <1>1 DEF Sort, incoming
  <2>2. /\ job'[b] \notin {"none", "sort"} /\ batches'[b] = [t \in Topic |-> Sorted(b, t)]
        /\ \A c \in Buffer : c # b =>
             content'[c] = content[c] /\ job'[c] = job[c] /\ batches'[c] = batches[c]
    BY <2>1, Topics DEF TypeInv, OwnerInv, HandTypes, PathTypes
  <2>3. CASE Held(m, b)
    <3>1. PICK i \in DOMAIN content[b] : content[b][i] = m
      BY <2>1, <2>3 DEF Held, InBuffer
    <3>2. i \in DOMAIN Sorted(b, TopicOf[m]) /\ Sorted(b, TopicOf[m])[i] = m
      BY <3>1 DEF Sorted
    <3>3. InBatch(m, b)'
      BY <2>2, <3>2 DEF InBatch
    <3>4. QED  BY <2>2, <3>3 DEF At, Held
  <2>4. CASE ~Held(m, b)
    BY <2>1, <2>2, <2>4, OthersKeep
  <2>5. QED  BY <2>3, <2>4
<1>2. CASE Push(b)
  <2>1. PICK n \in DOMAIN TopicOrder :
          LET t == TopicOrder[n] IN
          /\ job[b] = t
          /\ query_queue' = IF HasRows(b, t)
                    THEN [query_queue EXCEPT ![t] = Append(query_queue[t], batches[b][t])]
                    ELSE query_queue
          /\ batches' = [batches EXCEPT ![b][t] = <<>>]
          /\ job' = [job EXCEPT ![b] = IF n < Len(TopicOrder) THEN TopicOrder[n + 1]
                                       ELSE "finish"]
          /\ UNCHANGED <<content, local_msg_queue, inserted>>
    BY <1>2 DEF Push, incoming
  <2> DEFINE t == TopicOrder[n]
             step == IF n < Len(TopicOrder) THEN TopicOrder[n + 1] ELSE "finish"
  <2>2. t \in Topic /\ t \notin {"none", "sort"} /\ step \notin {"none", "sort"}
    <3>1. n < Len(TopicOrder) => n + 1 \in DOMAIN TopicOrder
      BY Topics
    <3>2. QED  BY <3>1, Topics
  <2>3. /\ job[b] \notin {"none", "sort"} /\ job'[b] \notin {"none", "sort"}
        /\ \A c \in Buffer : c # b => job'[c] = job[c] /\ batches'[c] = batches[c]
        /\ \A u \in Topic : u # t => batches'[b][u] = batches[b][u]
        /\ UNCHANGED <<content, local_msg_queue, inserted>>
    BY <2>1, <2>2 DEF TypeInv, OwnerInv, HandTypes, PathTypes
  <2> HIDE DEF step
  <2>4. PICK e :
      /\ e \notin DOMAIN query_queue[t]
      /\ DOMAIN query_queue'[t] \subseteq DOMAIN query_queue[t] \cup {e}
      /\ DOMAIN query_queue[t] \subseteq DOMAIN query_queue'[t]
      /\ \A k \in DOMAIN query_queue[t] : query_queue'[t][k] = query_queue[t][k]
      /\ e \in DOMAIN query_queue'[t] => query_queue'[t][e] = batches[b][t]
      /\ DOMAIN batches[b][t] # {} => e \in DOMAIN query_queue'[t]
      /\ \A u \in Topic : u # t => query_queue'[u] = query_queue[u]
    <3>1. query_queue' = IF HasRows(b, t)
                    THEN [query_queue EXCEPT ![t] = Append(query_queue[t], batches[b][t])]
                    ELSE query_queue
      BY <2>1
    <3> HIDE DEF t
    <3>2. QED  BY <2>2, <3>1, PushedBatch
  <2> HIDE DEF t
  <2>5. Waits(m) => Waits(m)'
    <3> SUFFICES ASSUME Waits(m) PROVE Waits(m)'
      OBVIOUS
    <3>1. PICK u \in Topic : \E k \in DOMAIN query_queue[u] :
                 \E i \in DOMAIN query_queue[u][k] : query_queue[u][k][i] = m
      BY DEF Waits
    <3>2. PICK k \in DOMAIN query_queue[u] :
                 \E i \in DOMAIN query_queue[u][k] : query_queue[u][k][i] = m
      BY <3>1
    <3>3. k \in DOMAIN query_queue'[u] /\ query_queue'[u][k] = query_queue[u][k]
      BY <2>4
    <3>4. QED  BY <3>2, <3>3 DEF Waits
  <2>6. Inserted(m) => Inserted(m)'
    BY <2>3 DEF Inserted
  <2>7. ASSUME NEW c \in Buffer, Held(m, c) PROVE At(m)'
    <3>1. CASE c # b
      BY <2>3, <2>7, <3>1 DEF At, Held, InBuffer, InBatch
    <3>2. CASE c = b
      <4>1. PICK u \in Topic : \E i \in DOMAIN batches[b][u] : batches[b][u][i] = m
        BY <2>3, <2>7, <3>2 DEF Held, InBatch, TypeInv, OwnerInv, Handed
      <4>2. CASE u = t
        <5>1. e \in DOMAIN query_queue'[t] /\ query_queue'[t][e] = batches[b][t]
          BY <2>4, <4>1, <4>2
        <5>2. Waits(m)'
          BY <2>2, <4>1, <4>2, <5>1 DEF Waits
        <5>3. QED  BY <5>2 DEF At
      <4>3. CASE u # t
        BY <2>3, <4>1, <4>3 DEF At, Held, InBatch
      <4>4. QED  BY <4>2, <4>3
    <3>3. QED  BY <3>1, <3>2
  <2>8. QED  BY <2>5, <2>6, <2>7 DEF At
<1>3. CASE Finish(b)
  <2>1. /\ job[b] = "finish" /\ content' = [content EXCEPT ![b] = <<>>]
        /\ job' = [job EXCEPT ![b] = "none"]
        /\ UNCHANGED <<batches, local_msg_queue, query_queue, inserted>>
    BY <1>3 DEF Finish, ReturnBuffer, Emptied
  <2>2. \A c \in Buffer : c # b => content'[c] = content[c] /\ job'[c] = job[c]
    BY <2>1 DEF TypeInv, OwnerInv, HandTypes, PathTypes
  <2>3. ~Held(m, b)
    <3>1. ~InBatch(m, b)
      BY <2>1 DEF InBatch, PlaceInv, PartsOfBuffer
    <3>2. QED  BY <2>1, <3>1 DEF Held, TypeInv, OwnerInv, Handed
  <2>4. QED  BY <2>1, <2>2, <2>3, OthersKeep
<1>4. CASE JobFails(b)
  BY <1>4 DEF JobFails, TypeInv, PathTypes
<1>5. QED  BY <1>1, <1>2, <1>3, <1>4 DEF JobNext

\* So do the distributor and the database's job.
LEMMA OthersMoveOn ==
  ASSUME TypeInv, PlaceInv, NEW m \in Message, At(m),
         Take \/ Dispatch \/ \E t \in Topic : Insert(t)
  PROVE  At(m)'
<1> USE DEF incoming
<1>1. CASE Take
  <2>1. /\ UNCHANGED <<content, job, batches, query_queue, inserted>>
        /\ local_msg_queue = <<>>
    BY <1>1 DEF Take
  <2>2. \A b : b \notin ToSet(local_msg_queue)
    BY <2>1 DEF ToSet
  <2>3. QED  BY <2>1, <2>2 DEF At, Held, InBuffer, InBatch, Waits, Inserted
<1>2. CASE Dispatch
  <2> DEFINE q == local_msg_queue
             b == Head(q)
  <2>1. /\ q # <<>> /\ q' = Tail(q) /\ job' = [job EXCEPT ![b] = "sort"]
        /\ UNCHANGED <<content, batches, query_queue, inserted>>
    BY <1>2 DEF Dispatch
  <2>2. /\ b \in Buffer /\ b \in Handed /\ ToSet(q) = ToSet(q') \cup {b}
    BY <2>1, TailOfQueue DEF TypeInv, OwnerInv, HandTypes, Handed
  <2> HIDE DEF b
  <2>3. job[b] = "none" /\ \A c \in Buffer : job'[c] = IF c = b THEN "sort" ELSE job[c]
    BY <2>1, <2>2 DEF TypeInv, OwnerInv, HandTypes
  <2>4. \A c \in Buffer : Held(m, c) => Held(m, c)'
    BY <2>1, <2>2, <2>3 DEF Held, InBuffer, InBatch
  <2>5. QED  BY <2>1, <2>4 DEF At, Waits, Inserted
<1>3. CASE \E t \in Topic : Insert(t)
  <2>1. PICK t \in Topic : Insert(t)
    BY <1>3
  <2>2. UNCHANGED <<content, job, batches, local_msg_queue>>
    BY <2>1 DEF Insert
  <2>3. Waits(m)' \/ Inserted(m)' <=> Waits(m) \/ Inserted(m)
    BY <2>1, InsertMoves
  <2>4. QED  BY <2>2, <2>3 DEF At, Held, InBuffer, InBatch
<1>4. QED  BY <1>1, <1>2, <1>3

AllAt == \A m \in Message : m \in AtWorkers <=> At(m)

\* No step but a failing job's takes a message of a known topic from the workers: not a
\* receiver's, though it may have been given a buffer of theirs to use again, nor a restart.
THEOREM WorkersLoseNothing == Spec => WorkersKeepMessages
<1>1. TypeInv /\ PlaceInv => AllAt
  BY MessagesAtWorkers DEF AllAt, At
<1>2. ASSUME TypeInv, PlaceInv, AllAt, AllAt', [Next]_vars
      PROVE  [failed' = failed => AtWorkers \cap Wanted \subseteq AtWorkers']_vars
  <2> SUFFICES ASSUME Next, failed' = failed, NEW m \in AtWorkers, m \in Wanted
               PROVE  m \in AtWorkers'
    BY <1>2
  <2>1. m \in Message /\ TopicOf[m] \in Topic /\ At(m)
    BY <1>2 DEF Wanted, AllAt
  <2>2. At(m)'
    BY <1>2, <2>1, ReceiversKeep, JobsKeep, OthersMoveOn DEF Next
  <2>3. QED  BY <1>2, <2>1, <2>2 DEF AllAt
<1>3. TypeInv /\ [Next]_vars => TypeInv'
  BY TypesInductive
<1>4. TypeInv /\ PlaceInv /\ [Next]_vars => PlaceInv'
  BY PlacesInductive
<1>5. QED
  BY <1>1, <1>2, <1>3, <1>4, TypesInitially, PlacesInitially, PTL
     DEF Spec, WorkersKeepMessages
=============================================================================
