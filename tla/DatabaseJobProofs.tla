------------------------- MODULE DatabaseJobProofs -------------------------
(***************************************************************************)
(* What is proved of a database job, for every work it may be given and    *)
(* any number of errors: see the README.                                   *)
(*                                                                         *)
(* The argument follows one iteration's loops.  An item is Done when they  *)
(* are past it (Passing, NextStep, AllDone).  CleanInv says of a job that  *)
(* nothing went wrong in so far that what is Done is in the transaction;   *)
(* ReturnInv that what the first iteration has Done went back to its pool. *)
(* RedoInv follows a job in which one thing goes wrong: Aborted, a commit  *)
(* that failed and no item tried since; Rest, the iteration in which item  *)
(* y was rejected, or blamed for that commit; Again, the one after it.     *)
(***************************************************************************)
EXTENDS DatabaseJobProps, SequenceTheorems, TLAPS

-----------------------------------------------------------------------------
(* The job's loops.                                                        *)

\* The steps are in a fixed order.
StepNr == [s \in StepName |-> CHOOSE n \in DOMAIN Steps : Steps[n] = s]

LEMMA StepsInOrder ==
  /\ DOMAIN Steps = 1..6 /\ Len(Steps) = 6
  /\ Steps[1] = "generics" /\ Steps[6] = "writes"
  /\ \A n \in 1..6 : Steps[n] \in StepName /\ StepNr[Steps[n]] = n
  /\ \A s \in StepName : StepNr[s] \in 1..6 /\ Steps[StepNr[s]] = s
  /\ "generics" \in StepName /\ StepNr["generics"] = 1
  /\ \A s \in Multicast : s \in StepName /\ s # "generics" /\ s # "writes"
  /\ "finish" \notin StepName
<1>1. /\ DOMAIN Steps = 1..6 /\ Len(Steps) = 6
      /\ Steps[1] = "generics" /\ Steps[2] = "logging" /\ Steps[3] = "monitoring"
      /\ Steps[4] = "rootplots" /\ Steps[5] = "plotlyplots" /\ Steps[6] = "writes"
  BY DEF Steps
<1>2. \A s : s \in StepName <=> \E n \in DOMAIN Steps : s = Steps[n]
  BY DEF StepName
<1>3. \A n, k \in 1..6 : Steps[n] = Steps[k] => n = k
  <2> SUFFICES ASSUME NEW n \in 1..6, NEW k \in 1..6, Steps[n] = Steps[k] PROVE n = k
    OBVIOUS
  <2>1. /\ n = 1 \/ n = 2 \/ n = 3 \/ n = 4 \/ n = 5 \/ n = 6
        /\ k = 1 \/ k = 2 \/ k = 3 \/ k = 4 \/ k = 5 \/ k = 6
    OBVIOUS
  <2>2. QED  BY <1>1, <2>1
<1>4. ASSUME NEW s \in StepName
      PROVE  /\ StepNr[s] \in 1..6 /\ Steps[StepNr[s]] = s
             /\ \A n \in 1..6 : s = Steps[n] => StepNr[s] = n
  <2>1. \E n \in DOMAIN Steps : Steps[n] = s
    BY <1>2
  <2>2. StepNr[s] = CHOOSE n \in DOMAIN Steps : Steps[n] = s
    BY DEF StepNr
  <2>3. StepNr[s] \in DOMAIN Steps /\ Steps[StepNr[s]] = s
    BY <2>1, <2>2
  <2>4. QED  BY <1>1, <1>3, <2>3
<1>5. \A n \in 1..6 : Steps[n] \in StepName
  BY <1>1, <1>2
<1>6. \A s \in Multicast : s \in {Steps[2], Steps[3], Steps[4], Steps[5]}
  BY <1>1 DEF Multicast
<1>7. \A n \in 1..6 : Steps[n] # "finish"
  <2> SUFFICES ASSUME NEW n \in 1..6 PROVE Steps[n] # "finish"
    OBVIOUS
  <2>1. n = 1 \/ n = 2 \/ n = 3 \/ n = 4 \/ n = 5 \/ n = 6
    OBVIOUS
  <2>2. QED  BY <1>1, <2>1
<1>8. \A s \in Multicast : s # "generics" /\ s # "writes"
  BY DEF Multicast
<1>9. "finish" \notin StepName
  BY <1>1, <1>2, <1>7
<1>10. \A n \in 1..6 : StepNr[Steps[n]] = n
  BY <1>4, <1>5
<1>11. "generics" \in StepName /\ StepNr["generics"] = 1
  BY <1>1, <1>5, <1>10
<1>12. \A s \in Multicast : s \in StepName
  BY <1>5, <1>6
<1>13. QED  BY <1>1, <1>4, <1>5, <1>8, <1>9, <1>10, <1>11, <1>12

\* An item is a place of its step's queue.
LEMMA ItemPlaces ==
  /\ \A x : x \in Items <=>
       \E s \in StepName : \E r \in 1..Rows(s) : \E c \in 1..Columns(s, r) :
         x = <<s, r, c>> /\ HasItem(s, r, c)
  /\ \A x \in MulticastItems : x \in Items /\ x[1] \in Multicast
  /\ \A x \in Items : x[1] \in Multicast => x \in MulticastItems
<1>1. ASSUME NEW x
      PROVE  x \in UNION {UNION {{<<s, r, c>> : c \in 1..Columns(s, r)} : r \in 1..Rows(s)}
                           : s \in StepName}
             <=> \E s \in StepName : \E r \in 1..Rows(s) : \E c \in 1..Columns(s, r) :
                   x = <<s, r, c>>
  OBVIOUS
<1>2. \A x : x \in Items <=>
       \E s \in StepName : \E r \in 1..Rows(s) : \E c \in 1..Columns(s, r) :
         x = <<s, r, c>> /\ HasItem(x[1], x[2], x[3])
  BY <1>1 DEF Items
<1>3. \A s, r, c : <<s, r, c>>[1] = s /\ <<s, r, c>>[2] = r /\ <<s, r, c>>[3] = c
  OBVIOUS
<1>4. QED  BY <1>2, <1>3 DEF MulticastItems

\* The items are those of what the job was given.
LEMMA SameItems ==
  ASSUME work' = work
  PROVE  /\ Items' = Items /\ MulticastItems' = MulticastItems
         /\ \A s : Rows(s)' = Rows(s)
BY DEF Items, MulticastItems, HasItem, Rows, Columns

\* A queue has so many rows, and a row so many columns.
LEMMA WorkTypes ==
  ASSUME work \in Works
  PROVE  \A s \in StepName :
           /\ Rows(s) \in Nat
           /\ \A r \in 1..Rows(s) : Columns(s, r) \in Nat
<1>1. IsWork(work)
  BY WorksAssumption
<1>2. work["writes"] \in Seq(WriteBatch) /\ \A s \in Multicast : work[s] \in Nat
  BY <1>1 DEF IsWork
<1>3. Len(work["writes"]) \in Nat /\ DOMAIN work["writes"] = 1..Len(work["writes"])
  BY <1>2, LenProperties
<1>4. \A r \in 1..Len(work["writes"]) : work["writes"][r].generics \in Nat
  <2>1. \A r \in 1..Len(work["writes"]) : work["writes"][r] \in WriteBatch
    BY <1>2, <1>3
  <2>2. QED  BY <2>1 DEF WriteBatch
<1>5. Len(PartOrder) \in Nat /\ "generics" \notin Multicast
  BY DEF PartOrder, Multicast
<1>6. \A s \in StepName : Rows(s) \in Nat
  BY <1>2, <1>3 DEF Rows
<1>7. ASSUME NEW s \in StepName, NEW r \in 1..Rows(s) PROVE Columns(s, r) \in Nat
  BY <1>2, <1>3, <1>4, <1>5, <1>7 DEF Columns, Rows
<1>8. QED  BY <1>6, <1>7

Counters == /\ start_j \in Nat /\ errors \in Nat /\ commit_faults \in Nat
            /\ closed_tx_executes \in BOOLEAN
\* The loops' places are counted from one, so what is before them is a place in C++.
JobTypes == TypeOK /\ Counters /\ i >= 1 /\ j >= 1

\* Where the loops go next.
LEMMA AdvanceTypes ==
  ASSUME JobTypes, NEW s, NEW cp, cp.j \in Nat, Advance(s, cp)
  PROVE  at' = at /\ i' \in Nat /\ j' \in Nat /\ i' >= 1 /\ j' >= 1
<1>1. FirstColumn(s, cp) \in Nat /\ FirstColumn(s, cp) >= 1
  BY DEF FirstColumn
<1>2. i \in Nat /\ j \in Nat /\ i >= 1 /\ j >= 1
  BY DEF JobTypes, TypeOK
<1>3. CASE j < LastColumn(s, i)
  BY <1>2, <1>3 DEF Advance
<1>4. CASE ~(j < LastColumn(s, i))
  BY <1>1, <1>2, <1>4 DEF Advance
<1>5. QED  BY <1>3, <1>4

\* What the loops find at their place is an item, and lies in the rows they go through.
LEMMA HereIsItem ==
  ASSUME JobTypes, NEW s \in StepName, ItemHere(s)
  PROVE  /\ Here(s) \in Items /\ Here(s) \notin flagged /\ HasItem(s, i, j)
         /\ Here(s)[1] = s /\ Here(s)[2] = i /\ Here(s)[3] = j
         /\ i <= LastRow(s) /\ j <= LastColumn(s, i)
         /\ i \in 1..Rows(s) /\ j \in 1..Columns(s, i)
         /\ s \in Multicast <=> Here(s) \in MulticastItems
<1>1. HasItem(s, i, j) /\ InRow(s) /\ Here(s) = <<s, i, j>> /\ Here(s) \notin flagged
  BY DEF ItemHere, Here, IsBad
<1>2. i \in 1..Rows(s) /\ j \in 1..Columns(s, i)
  BY <1>1 DEF HasItem
<1>3. Here(s) \in Items
  BY <1>1, <1>2, ItemPlaces
<1>4. QED  BY <1>1, <1>2, <1>3, ItemPlaces DEF InRow

\* One batch more is back in its pool, or none.
LEMMA ReturnTypes ==
  ASSUME JobTypes, NEW x, Return(x)
  PROVE  /\ returned' \in [MulticastItems -> Nat]
         /\ \A y \in MulticastItems :
              returned'[y] = IF y = x THEN returned[y] + 1 ELSE returned[y]
<1>1. returned \in [MulticastItems -> Nat]
  BY DEF JobTypes, TypeOK
<1>2. QED  BY <1>1 DEF Return

\* No step takes a variable out of its type, whatever it finds.
LEMMA TypesInductive == ASSUME JobTypes, [Next]_vars PROVE JobTypes'
<1> USE DEF JobTypes, TypeOK, Counters, given, loop, db, points, history
<1>1. CASE Start
  <2>1. /\ work' \in Works /\ connected' \in BOOLEAN /\ status' \in {"running", "failed"}
        /\ had_error' = FALSE /\ endpoint' = [endpoint EXCEPT !.step = "finish"]
        /\ at' = 1 /\ i' = 1 /\ j' = FirstColumn("generics", checkpoint)
        /\ tx' = "open" /\ pending' = {} /\ flagged' = {}
        /\ committed' = [x \in Items' |-> 0] /\ returned' = [x \in MulticastItems' |-> 0]
        /\ start_j' = checkpoint.j /\ errors' = 0 /\ commit_faults' = 0
        /\ UNCHANGED <<closed_tx_executes, checkpoint>>
    BY <1>1 DEF Start, Clear
  <2>2. checkpoint.j \in Nat /\ j' \in Nat /\ j' >= 1
    BY <2>1 DEF FirstColumn
  <2>3. /\ endpoint' \in [step : StepName \cup {"finish"}, i : Nat, j : Nat]
        /\ committed' \in [Items' -> Nat] /\ returned' \in [MulticastItems' -> Nat]
    BY <2>1
  <2>4. at' \in 1..(Len(Steps) + 1)
    BY <2>1, StepsInOrder
  <2>5. pending' \subseteq Items' /\ flagged' \subseteq Items' /\ start_j' \in Nat
    BY <2>1
  <2>6. TypeOK'
    <3> HIDE DEF JobTypes, Counters
    <3>1. checkpoint' \in [step : StepName, i : Nat, j : Nat]
      BY <2>1 DEF JobTypes
    <3>2. QED  BY <2>1, <2>2, <2>3, <2>4, <2>5, <3>1
  <2>7. QED  BY <2>1, <2>2, <2>5, <2>6
<1>2. ASSUME JobNext \/ UNCHANGED vars
      PROVE  /\ work' = work /\ Items' = Items /\ MulticastItems' = MulticastItems
             /\ closed_tx_executes' = closed_tx_executes
  <2>1. UNCHANGED given
    BY <1>2 DEF JobNext, Skip, PastTheEnd, Execute, Reject, StepDone, Commit, CommitFails,
                CommitInDoubt, vars
  <2>2. QED  BY <2>1, SameItems
<1>3. checkpoint.j \in Nat
  OBVIOUS
<1>4. ASSUME NEW s \in StepName, Skip(s) PROVE JobTypes'
  <2>1. /\ at' = at /\ i' \in Nat /\ j' \in Nat /\ i' >= 1 /\ j' >= 1
    BY <1>3, <1>4, AdvanceTypes DEF Skip
  <2>2. QED  BY <1>2, <1>4, <2>1 DEF Skip, JobNext
<1>5. ASSUME NEW s \in StepName, PastTheEnd(s) PROVE JobTypes'
  BY <1>2, <1>5 DEF PastTheEnd, JobNext
<1>6. ASSUME NEW s \in StepName, Execute(s) PROVE JobTypes'
  <2>1. /\ at' = at /\ i' \in Nat /\ j' \in Nat /\ i' >= 1 /\ j' >= 1
    BY <1>3, <1>6, AdvanceTypes DEF Execute
  <2>2. Here(s) \in Items /\ returned' \in [MulticastItems -> Nat]
    BY <1>6, HereIsItem, ReturnTypes DEF Execute
  <2>3. /\ pending' \subseteq Items /\ committed' \in [Items -> Nat]
        /\ pending' # {} => tx = "open"
        /\ UNCHANGED <<given, status, tx, connected, flagged, had_error, points, history>>
    BY <1>6, <2>2 DEF Execute
  <2>4. QED  BY <1>2, <1>6, <2>1, <2>2, <2>3 DEF JobNext
<1>7. ASSUME NEW s \in StepName, Reject(s) PROVE JobTypes'
  <2>1. /\ ItemHere(s) /\ flagged' = flagged \cup {Here(s)} /\ had_error' = TRUE
        /\ checkpoint' = FoundAt(s) /\ errors' \in {errors, errors + 1}
        /\ connected' \in BOOLEAN
        /\ UNCHANGED <<given, committed, endpoint, start_j, commit_faults>>
    BY <1>7 DEF Reject
  <2>2. checkpoint' \in [step : StepName, i : Nat, j : Nat]
    <3>1. /\ i \in Nat /\ j \in Nat /\ i - 1 \in Nat /\ j - 1 \in Nat
          /\ checkpoint \in [step : StepName, i : Nat, j : Nat]
      OBVIOUS
    <3>2. \/ FoundAt(s) = [checkpoint EXCEPT !.i = i, !.j = j - 1]
          \/ FoundAt(s) = [checkpoint EXCEPT !.i = i]
          \/ FoundAt(s) = [checkpoint EXCEPT !.i = i - 1]
      BY DEF FoundAt
    <3>3. QED  BY <2>1, <3>1, <3>2
  <2>3. \/ /\ NewTx /\ Return(Here(s)) /\ Advance(s, checkpoint') /\ UNCHANGED status
        \/ status' = "failed" /\ UNCHANGED <<tx, pending, returned, loop>>
    BY <1>7 DEF Reject
  <2>4. Here(s) \in Items
    BY <2>1, HereIsItem
  <2>5. CASE NewTx /\ Return(Here(s)) /\ Advance(s, checkpoint') /\ UNCHANGED status
    <3>1. at' = at /\ i' \in Nat /\ j' \in Nat /\ i' >= 1 /\ j' >= 1
      <4>1. checkpoint'.j \in Nat
        BY <2>2
      <4>2. QED  BY <2>5, <4>1, AdvanceTypes
    <3>2. returned' \in [MulticastItems -> Nat]
      BY <2>5, ReturnTypes
    <3>3. QED  BY <1>2, <1>7, <2>1, <2>2, <2>4, <2>5, <3>1, <3>2 DEF JobNext, NewTx
  <2>6. CASE status' = "failed" /\ UNCHANGED <<tx, pending, returned, loop>>
    BY <1>2, <1>7, <2>1, <2>2, <2>4, <2>6 DEF JobNext
  <2>7. QED  BY <2>3, <2>5, <2>6
<1>8. ASSUME NEW s \in StepName, StepDone(s) PROVE JobTypes'
  <2>1. /\ s = Steps[at] /\ at \in 1..6 /\ i' = 1 /\ j' = 1
        /\ UNCHANGED <<given, status, db, flagged, returned, had_error, endpoint, history>>
    BY <1>8, StepsInOrder DEF StepDone, Running
  <2>2. at' \in 1..7 /\ checkpoint' \in [step : StepName, i : Nat, j : Nat]
    <3>1. CASE s = "writes"
      BY <1>8, <2>1, <3>1 DEF StepDone
    <3>2. CASE s # "writes"
      <4>1. at + 1 \in 1..6
        BY <2>1, <3>2, StepsInOrder
      <4>2. Steps[at + 1] \in StepName /\ Len(Steps) + 1 = 7
        BY <4>1, StepsInOrder
      <4>3. QED  BY <1>8, <2>1, <3>2, <4>1, <4>2 DEF StepDone, SetCheckpoint
    <3>3. QED  BY <3>1, <3>2
  <2>3. QED  BY <1>2, <1>8, <2>1, <2>2, StepsInOrder DEF JobNext
<1>9. ASSUME Commit \/ CommitFails \/ CommitInDoubt PROVE JobTypes'
  <2>1. /\ pending' = {} /\ tx' \in {"closed", "aborted"} /\ connected' \in BOOLEAN
        /\ endpoint' \in {endpoint, checkpoint}
        /\ commit_faults' \in {commit_faults, commit_faults + 1}
        /\ UNCHANGED <<given, flagged, returned, checkpoint, start_j, errors>>
    BY <1>9 DEF Commit, CommitFails, CommitInDoubt
  <2>2. committed' \in [Items -> Nat]
    <3>1. \/ committed' = committed
          \/ committed' = [x \in Items |-> committed[x] + (IF x \in pending THEN 1 ELSE 0)]
      BY <1>9 DEF Commit, CommitFails, CommitInDoubt
    <3>2. committed \in [Items -> Nat]
      OBVIOUS
    <3>3. QED  BY <3>1, <3>2
  <2>3. /\ status' \in {status, "finished", "failed"}
        /\ \/ UNCHANGED <<loop, had_error>>
           \/ /\ had_error' = FALSE /\ at' = 1 /\ i' = 1
              /\ j' = FirstColumn("generics", checkpoint)
    BY <1>9 DEF Commit, CommitFails, CommitInDoubt, IterationEnds, ForgetError
  <2>4. /\ FirstColumn("generics", checkpoint) \in Nat
        /\ FirstColumn("generics", checkpoint) >= 1
    BY DEF FirstColumn
  <2>5. at' \in 1..(Len(Steps) + 1) /\ i' \in Nat /\ j' \in Nat /\ i' >= 1 /\ j' >= 1
        /\ had_error' \in BOOLEAN
    <3>1. /\ at \in 1..(Len(Steps) + 1) /\ 1 \in 1..(Len(Steps) + 1)
          /\ i \in Nat /\ j \in Nat /\ i >= 1 /\ j >= 1 /\ had_error \in BOOLEAN
      BY StepsInOrder
    <3>2. had_error' \in BOOLEAN
      BY <2>3, <3>1
    <3>3. \/ at' = at /\ i' = i /\ j' = j
          \/ at' = 1 /\ i' = 1 /\ j' = FirstColumn("generics", checkpoint)
      BY <2>3
    <3>4. at' \in 1..(Len(Steps) + 1) /\ i' \in Nat /\ j' \in Nat /\ i' >= 1 /\ j' >= 1
      BY <2>4, <3>1, <3>3
    <3>5. QED  BY <3>2, <3>4
  <2>6. QED  BY <1>2, <1>9, <2>1, <2>2, <2>3, <2>5 DEF JobNext
<1>10. CASE UNCHANGED vars
  BY <1>2, <1>10 DEF vars
<1>11. QED
  BY <1>1, <1>4, <1>5, <1>6, <1>7, <1>8, <1>9, <1>10 DEF Next, JobNext

\* The struct is made with its members in their types.
LEMMA TypesInitially == Init => JobTypes
<1> SUFFICES ASSUME Init PROVE JobTypes
  OBVIOUS
<1>1. checkpoint \in [step : StepName, i : Nat, j : Nat]
  BY WorksAssumption DEF Init, Point
<1>2. endpoint \in [step : StepName \cup {"finish"}, i : Nat, j : Nat]
  BY DEF Init, Point
<1>3. 1 \in 1..(Len(Steps) + 1)
  BY StepsInOrder
<1>4. committed \in [Items -> Nat] /\ returned \in [MulticastItems -> Nat]
  BY DEF Init
<1>5. {connected, had_error} \subseteq BOOLEAN /\ pending = {} /\ flagged = {}
  BY DEF Init
<1>6. /\ work \in Works /\ status = "idle" /\ at = 1 /\ i = 1 /\ j = 1 /\ tx = "open"
  BY DEF Init
<1>7. TypeOK
  BY <1>5, <1>6, <1>1, <1>2, <1>3, <1>4 DEF TypeOK
<1>8. QED  BY <1>7 DEF Init, JobTypes, Counters

\* The job's variables hold what their C++ members can: no place before a queue's first is
\* computed, and nothing is pending where no transaction is open.
THEOREM JobTypeCorrect == Spec => []TypeOK
<1>1. JobTypes => TypeOK
  BY DEF JobTypes
<1>2. JobTypes /\ [Next]_vars => JobTypes'
  BY TypesInductive
<1>3. QED  BY <1>1, <1>2, TypesInitially, PTL DEF Spec

-----------------------------------------------------------------------------
(* What an iteration has passed.                                           *)

\* The loops are past item x.
Done(x) ==
  \/ StepNr[x[1]] < at
  \/ StepNr[x[1]] = at /\ (x[2] < i \/ (x[2] = i /\ x[3] < j))

EarlierStep(x, y) == StepNr[x[1]] < StepNr[y[1]]
Follows(x, y) == EarlierStep(y, x) \/ Precedes(y, x)

Placed == \A x \in Items :
  /\ x[1] \in StepName /\ StepNr[x[1]] \in 1..6 /\ Steps[StepNr[x[1]]] = x[1]
  /\ x[2] \in 1..Rows(x[1]) /\ x[3] \in 1..Columns(x[1], x[2])
  /\ x[2] \in Nat /\ x[2] >= 1 /\ x[3] \in Nat /\ x[3] >= 1
  /\ x = <<x[1], x[2], x[3]>> /\ HasItem(x[1], x[2], x[3])

\* An item lies in a row and a column of its own step.
LEMMA ItemsArePlaced == Placed
<1> SUFFICES ASSUME NEW x \in Items
             PROVE  /\ x[1] \in StepName /\ StepNr[x[1]] \in 1..6 /\ Steps[StepNr[x[1]]] = x[1]
                    /\ x[2] \in 1..Rows(x[1]) /\ x[3] \in 1..Columns(x[1], x[2])
                    /\ x[2] \in Nat /\ x[2] >= 1 /\ x[3] \in Nat /\ x[3] >= 1
                    /\ x = <<x[1], x[2], x[3]>> /\ HasItem(x[1], x[2], x[3])
  BY DEF Placed
<1>0. PICK s \in StepName : \E r \in 1..Rows(s) : \E c \in 1..Columns(s, r) :
        x = <<s, r, c>> /\ HasItem(s, r, c)
  BY ItemPlaces
<1>4. PICK r \in 1..Rows(s) : \E c \in 1..Columns(s, r) :
        x = <<s, r, c>> /\ HasItem(s, r, c)
  BY <1>0
<1>1. PICK c \in 1..Columns(s, r) : x = <<s, r, c>> /\ HasItem(s, r, c)
  BY <1>4
<1>2. r \in Nat /\ r >= 1 /\ c \in Nat /\ c >= 1
  BY <1>1
<1>3. x[1] = s /\ x[2] = r /\ x[3] = c
  BY <1>1
<1>5. QED  BY <1>1, <1>2, <1>3, StepsInOrder

\* So it does after a step, whatever the job was given meanwhile.
LEMMA PlacedNext == Placed'
BY ItemsArePlaced, PTL

\* No multicast batch is a generic query.
LEMMA MulticastPlaced ==
  \A x \in MulticastItems : x \in Items /\ x[1] # "generics"
BY ItemPlaces, StepsInOrder

\* An iteration begins before everything, but for the first generic queries of a row.
LEMMA NothingDoneNext ==
  ASSUME at' = 1, i' = 1, Placed', NEW x \in Items', x[1] # "generics" \/ j' = 1
  PROVE  ~Done(x)'
<1>1. /\ StepNr[x[1]] >= 1 /\ StepNr[x[1]] \in Nat
      /\ x[2] \in Nat /\ x[2] >= 1 /\ x[3] \in Nat /\ x[3] >= 1
  BY DEF Placed
<1>2. StepNr[x[1]] = 1 => x[1] = "generics"
  BY StepsInOrder DEF Placed
<1>3. QED  BY <1>1, <1>2 DEF Done

\* It has passed everything when it commits.
LEMMA AllDone ==
  ASSUME at = 7, NEW x \in Items
  PROVE  Done(x)
BY ItemsArePlaced DEF Placed, Done

\* A step that is not the last an iteration is to do goes through all its rows.
LEMMA FullStep ==
  ASSUME NEW s, endpoint.step # s
  PROVE  LastRow(s) = Rows(s) /\ \A r : LastColumn(s, r) = Columns(s, r)
BY DEF LastRow, LastColumn

\* The step that runs is the one the job is at.
LEMMA RunningStep ==
  ASSUME NEW s \in StepName, Running(s)
  PROVE  at \in 1..6 /\ StepNr[s] = at /\ s = Steps[at]
BY StepsInOrder DEF Running

\* Going on passes the place the loops are at, and no other item.
LEMMA Passing ==
  ASSUME JobTypes, NEW s \in StepName, Running(s), i <= Rows(s), endpoint.step # s,
         NEW cp, Advance(s, cp), NEW x \in Items,
         s = "generics" /\ x[1] = "generics" => cp.j = 0
  PROVE  Done(x)' <=> Done(x) \/ x = Here(s)
<1>0. /\ StepNr[s] = at /\ at' = at /\ i \in Nat /\ j \in Nat /\ i >= 1 /\ j >= 1
      /\ i \in 1..Rows(s) /\ at \in Nat
  BY RunningStep, WorkTypes DEF JobTypes, TypeOK, Advance
<1>1. /\ x[1] \in StepName /\ StepNr[x[1]] \in Nat /\ Steps[StepNr[x[1]]] = x[1]
      /\ x[3] \in 1..Columns(x[1], x[2])
      /\ x[2] \in Nat /\ x[2] >= 1 /\ x[3] \in Nat /\ x[3] >= 1
      /\ x = <<x[1], x[2], x[3]>>
  BY ItemsArePlaced DEF Placed
<1>2. Columns(s, i) \in Nat
  BY <1>0, WorkTypes DEF JobTypes, TypeOK
<1>3. CASE x[1] # s
  <2>1. StepNr[x[1]] # at
    BY <1>0, <1>1, <1>3, StepsInOrder
  <2>2. x # Here(s)
    BY <1>3 DEF Here
  <2>3. QED  BY <1>0, <2>1, <2>2 DEF Done
<1>4. CASE x[1] = s
  <2>1. x = Here(s) <=> x[2] = i /\ x[3] = j
    BY <1>1, <1>4 DEF Here
  <2>2. Done(x) <=> x[2] < i \/ (x[2] = i /\ x[3] < j)
    BY <1>0, <1>4 DEF Done
  <2>3. Done(x)' <=> x[2] < i' \/ (x[2] = i' /\ x[3] < j')
    BY <1>0, <1>4 DEF Done
  <2>4. CASE j < Columns(s, i)
    <3>1. j' = j + 1 /\ i' = i
      BY <2>4, FullStep DEF Advance
    <3>2. QED  BY <1>0, <1>1, <2>1, <2>2, <2>3, <3>1
  <2>5. CASE ~(j < Columns(s, i))
    <3>1. i' = i + 1 /\ j' = 1
      BY <1>4, <2>5, FullStep DEF Advance, FirstColumn
    <3>2. x[2] = i => x[3] <= j
      BY <1>0, <1>1, <1>2, <1>4, <2>5
    <3>3. QED  BY <1>0, <1>1, <2>1, <2>2, <2>3, <3>1, <3>2
  <2>6. QED  BY <2>4, <2>5
<1>5. QED  BY <1>3, <1>4

\* Skipping passes what is flagged, or nothing.
LEMMA SkippedIsFlagged ==
  ASSUME JobTypes, NEW s \in StepName, Skip(s), endpoint.step # s, NEW x \in Items, x = Here(s)
  PROVE  x \in flagged
<1>1. /\ x[1] = s /\ x[2] = i /\ x[3] = j
  BY DEF Here
<1>2. HasItem(s, i, j) /\ i \in 1..Rows(s) /\ j \in 1..Columns(s, i)
  BY <1>1, ItemsArePlaced DEF Placed
<1>3. InRow(s)
  <2>1. i <= Rows(s) /\ j <= Columns(s, i)
    BY <1>2, WorkTypes DEF JobTypes, TypeOK
  <2>2. QED  BY <2>1, FullStep DEF InRow
<1>4. QED  BY <1>2, <1>3 DEF Skip, IsBad, Here

\* A step ends when its items are passed.
LEMMA EndOfStep ==
  ASSUME JobTypes, NEW s \in StepName, Running(s), i > LastRow(s), endpoint.step # s,
         NEW x \in Items
  PROVE  StepNr[x[1]] <= at <=> Done(x)
<1>1. i > Rows(s) /\ i \in Nat /\ j \in Nat /\ at \in Nat /\ StepNr[s] = at /\ Rows(s) \in Nat
  BY RunningStep, FullStep, WorkTypes DEF JobTypes, TypeOK
<1>2. /\ StepNr[x[1]] \in Nat /\ x[2] \in 1..Rows(x[1]) /\ Steps[StepNr[x[1]]] = x[1]
      /\ Steps[StepNr[s]] = s
  BY ItemsArePlaced, StepsInOrder DEF Placed
<1>3. StepNr[x[1]] = at => x[2] < i
  BY <1>1, <1>2
<1>4. QED  BY <1>1, <1>2, <1>3 DEF Done

\* Going on to the next step passes nothing.
LEMMA NextStep ==
  ASSUME JobTypes, NEW s \in StepName, Running(s), i > LastRow(s), endpoint.step # s,
         at' = at + 1, i' = 1, j' = 1, NEW x \in Items
  PROVE  Done(x)' <=> Done(x)
<1>1. /\ StepNr[x[1]] \in Nat /\ x[2] \in Nat /\ x[3] \in Nat /\ x[2] >= 1 /\ x[3] >= 1
  BY ItemsArePlaced DEF Placed
<1>2. at \in Nat
  BY RunningStep
<1>3. QED  BY <1>1, <1>2, EndOfStep DEF Done

\* What is not passed comes after what is.
LEMMA NotDoneFollows ==
  ASSUME JobTypes, NEW x \in Items, NEW y \in Items, Done(y), ~Done(x)
  PROVE  Follows(x, y)
<1>1. /\ StepNr[x[1]] \in Nat /\ Steps[StepNr[x[1]]] = x[1]
      /\ x[2] \in Nat /\ x[3] \in Nat
      /\ StepNr[y[1]] \in Nat /\ Steps[StepNr[y[1]]] = y[1]
      /\ y[2] \in Nat /\ y[3] \in Nat
  BY ItemsArePlaced DEF Placed
<1>2. i \in Nat /\ j \in Nat /\ at \in Nat
  BY StepsInOrder DEF JobTypes, TypeOK
<1>3. QED  BY <1>1, <1>2 DEF Done, Follows, EarlierStep, Precedes

\* The items are in one order, by step and by place in it.
LEMMA ItemOrder ==
  ASSUME NEW x \in Items, NEW y \in Items
  PROVE  /\ ~Follows(x, x) /\ ~(Follows(x, y) /\ EarlierStep(x, y))
         /\ Follows(x, y) => x # y /\ ~Follows(y, x)
         /\ ~(Follows(x, y) \/ EarlierStep(x, y)) <=> x = y \/ Precedes(x, y)
<1>1. /\ StepNr[x[1]] \in Nat /\ Steps[StepNr[x[1]]] = x[1]
      /\ x[2] \in Nat /\ x[3] \in Nat /\ x = <<x[1], x[2], x[3]>>
      /\ StepNr[y[1]] \in Nat /\ Steps[StepNr[y[1]]] = y[1]
      /\ y[2] \in Nat /\ y[3] \in Nat /\ y = <<y[1], y[2], y[3]>>
  BY ItemsArePlaced DEF Placed
<1>2. x = y <=> x[1] = y[1] /\ x[2] = y[2] /\ x[3] = y[3]
  BY <1>1
<1>3. x[1] = y[1] <=> StepNr[x[1]] = StepNr[y[1]]
  BY <1>1
<1>4. QED  BY <1>1, <1>2, <1>3 DEF Follows, EarlierStep, Precedes

-----------------------------------------------------------------------------
(* A job nothing goes wrong in, and what goes back to the pool.            *)

\* The first iteration, with no error so far; the checkpoint's step is the present one.
NoError == /\ ~had_error /\ endpoint.step = "finish"
           /\ at \in 2..6 => checkpoint.step = Steps[at]
NothingCommitted == \A x \in Items : committed[x] = 0

\* Nothing went wrong: what was passed is pending, and was returned if it goes back at all.
CleanInv == errors + commit_faults = 0 /\ status = "running" =>
  /\ NoError /\ tx = "open" /\ flagged = {} /\ checkpoint.j = start_j /\ NothingCommitted
  /\ \A x \in Items : x[1] # "generics" \/ start_j = 0 => (x \in pending <=> Done(x))
  /\ \A x \in MulticastItems : returned[x] = IF Done(x) THEN 1 ELSE 0
CleanEnd == errors + commit_faults = 0 /\ Finished =>
  /\ flagged = {}
  /\ \A x \in Items : start_j = 0 => committed[x] = 1
  /\ \A x \in MulticastItems : returned[x] = 1

\* The first full iteration returns what it passes.
ReturnInv ==
  /\ status = "running" => \A x \in MulticastItems :
       x \in flagged \/ endpoint.step # "finish" \/ Done(x) => returned[x] >= 1
  /\ Finished => \A x \in MulticastItems : returned[x] >= 1

\* A step of a running job goes on with its work.
LEMMA SameWork ==
  ASSUME JobNext
  PROVE  work' = work /\ Items' = Items /\ MulticastItems' = MulticastItems /\ start_j' = start_j
<1>1. work' = work /\ start_j' = start_j
  BY DEF JobNext, Skip, PastTheEnd, Execute, Reject, StepDone, Commit, CommitFails,
         CommitInDoubt, given, history
<1>2. QED  BY <1>1, SameItems

\* A step is not the one after the last, and the error-free end of it says where the job is.
LEMMA StepEnds ==
  ASSUME JobTypes, NEW s \in StepName, StepDone(s), NoError
  PROVE  NoError' /\ at' = at + 1 /\ i' = 1 /\ j' = 1
<1>1. /\ at \in 1..6 /\ s = Steps[at] /\ had_error \in BOOLEAN
      /\ checkpoint \in [step : StepName, i : Nat, j : Nat]
  BY RunningStep DEF StepDone, JobTypes, TypeOK
<1>2. UNCHANGED <<had_error, endpoint>> /\ i' = 1 /\ j' = 1
  BY DEF StepDone
<1>3. CASE s = "writes"
  <2>1. at = 6
    <3>1. StepNr[Steps[at]] = at /\ StepNr[Steps[6]] = 6 /\ Steps[6] = "writes"
      BY <1>1, StepsInOrder
    <3>2. QED  BY <1>1, <1>3, <3>1
  <2>3. at' = at + 1
    BY <1>3 DEF StepDone
  <2>2. QED  BY <1>2, <2>1, <2>3 DEF NoError
<1>4. CASE s # "writes"
  <2>1. at + 1 \in 1..6 /\ Steps[at + 1] \in StepName
    BY <1>1, <1>4, StepsInOrder
  <2>2. endpoint.step # Steps[at + 1]
    BY <2>1, StepsInOrder DEF NoError
  <2>3. at' = at + 1 /\ checkpoint' = [checkpoint EXCEPT !.step = Steps[at + 1]]
    BY <1>4, <2>2 DEF StepDone, SetCheckpoint, NoError
  <2>4. checkpoint'.step = Steps[at + 1]
    BY <1>1, <2>3
  <2>5. QED  BY <1>2, <2>3, <2>4 DEF NoError
<1>5. QED  BY <1>3, <1>4

\* A job begins clean.
LEMMA StartIsClean ==
  ASSUME JobTypes, Start
  PROVE  CleanInv' /\ CleanEnd' /\ ReturnInv'
<1>1. /\ status' \in {"running", "failed"}
      /\ had_error' = FALSE /\ endpoint' = [endpoint EXCEPT !.step = "finish"]
      /\ at' = 1 /\ i' = 1 /\ j' = FirstColumn("generics", checkpoint)
      /\ tx' = "open" /\ pending' = {} /\ flagged' = {}
      /\ committed' = [x \in Items' |-> 0] /\ returned' = [x \in MulticastItems' |-> 0]
      /\ start_j' = checkpoint.j /\ checkpoint' = checkpoint
  BY DEF Start, Clear
<1>2. endpoint'.step = "finish" /\ checkpoint.j \in Nat
  BY <1>1 DEF JobTypes, TypeOK
<1>3. NoError'
  BY <1>1, <1>2 DEF NoError
<1>4. j' = start_j' + 1
  BY <1>1 DEF FirstColumn
<1>5. \A x \in Items' : x[1] # "generics" \/ start_j' = 0 => ~Done(x)'
  BY <1>1, <1>4, NothingDoneNext, PlacedNext
<1>6. \A x \in MulticastItems' : x \in Items' /\ x[1] # "generics"
  BY StepsInOrder DEF MulticastItems
<1>7. CleanInv'
  <2>1. NothingCommitted'
    BY <1>1 DEF NothingCommitted
  <2>2. \A x \in Items' : x[1] # "generics" \/ start_j' = 0 => (x \in pending' <=> Done(x)')
    BY <1>1, <1>5
  <2>3. \A x \in MulticastItems' : returned'[x] = IF Done(x)' THEN 1 ELSE 0
    BY <1>1, <1>5, <1>6
  <2>4. QED  BY <1>1, <1>3, <2>1, <2>2, <2>3 DEF CleanInv
<1>8. CleanEnd' /\ ReturnInv'
  BY <1>1, <1>2, <1>5, <1>6 DEF CleanEnd, ReturnInv, Finished
<1>9. QED  BY <1>7, <1>8

\* Two counts that only grow do not become none.
LEMMA CountsGrow ==
  \A a, b, c, d \in Nat : c >= a /\ d >= b /\ a + b # 0 => c + d # 0
OBVIOUS

\* Where nothing went wrong before, nothing does but what is counted.
LEMMA CleanInductive ==
  ASSUME JobTypes, CleanInv, CleanEnd, JobNext
  PROVE  CleanInv' /\ CleanEnd'
<1> DEFINE clean == errors + commit_faults = 0
<1>0. /\ work' = work /\ Items' = Items /\ MulticastItems' = MulticastItems
      /\ start_j' = start_j /\ errors \in Nat /\ commit_faults \in Nat
      /\ status # "finished"
  BY SameWork DEF JobTypes, Counters, JobNext, Skip, PastTheEnd, Execute, Reject, StepDone,
                  Commit, CommitFails, CommitInDoubt, AtCommit, ItemHere, Running
<1> USE DEF db, points, history, given, loop
<1>1. ASSUME clean, status = "running"
      PROVE  /\ NoError /\ tx = "open" /\ flagged = {} /\ checkpoint.j = start_j
             /\ NothingCommitted /\ ~had_error
             /\ \A x \in Items : x[1] # "generics" \/ start_j = 0 => (x \in pending <=> Done(x))
             /\ \A x \in MulticastItems : returned[x] = IF Done(x) THEN 1 ELSE 0
             /\ \A s \in StepName : endpoint.step # s
  BY <1>1, StepsInOrder DEF CleanInv, NoError
<1>2. ASSUME ~clean' \/ status' \notin {"running", "finished"} PROVE CleanInv' /\ CleanEnd'
  BY <1>2 DEF CleanInv, CleanEnd, Finished
<1>3. ASSUME NEW s \in StepName, Skip(s) PROVE CleanInv' /\ CleanEnd'
  <2>1. /\ Running(s) /\ i <= Rows(s) /\ Advance(s, checkpoint) /\ status = "running"
        /\ UNCHANGED <<status, db, flagged, returned, had_error, points, history>>
    BY <1>3 DEF Skip, Running
  <2>2. CASE ~clean
    BY <1>2, <2>1, <2>2
  <2>3. CASE clean
    <3>1. \A x \in Items : x[1] # "generics" \/ start_j = 0 => (Done(x)' <=> Done(x))
      BY <1>1, <1>3, <2>1, <2>3, Passing, SkippedIsFlagged
    <3>2. NoError'
      BY <1>1, <2>1, <2>3 DEF NoError, Advance
    <3>3. NothingCommitted'
      BY <1>0, <1>1, <2>1, <2>3 DEF NothingCommitted
    <3>4. \A x \in MulticastItems : returned'[x] = IF Done(x)' THEN 1 ELSE 0
      BY <1>1, <2>1, <2>3, <3>1, MulticastPlaced
    <3>5. QED
      BY <1>0, <1>1, <2>1, <2>3, <3>1, <3>2, <3>3, <3>4 DEF CleanInv, CleanEnd, Finished
  <2>4. QED  BY <2>2, <2>3
<1>4. ASSUME NEW s \in StepName, Execute(s) PROVE CleanInv' /\ CleanEnd'
  <2>1. /\ Running(s) /\ ItemHere(s) /\ Advance(s, checkpoint) /\ status = "running"
        /\ UNCHANGED <<status, tx, connected, flagged, had_error, points, history>>
        /\ Return(Here(s))
    BY <1>4 DEF Execute, ItemHere, Running
  <2>2. CASE ~clean
    BY <1>2, <2>1, <2>2
  <2>3. CASE clean
    <3>0. Here(s) \in Items /\ i <= Rows(s)
      BY <2>1, HereIsItem, WorkTypes DEF JobTypes, TypeOK
    <3>1. \A x \in Items : x[1] # "generics" \/ start_j = 0
                             => (Done(x)' <=> Done(x) \/ x = Here(s))
      BY <1>1, <2>1, <2>3, <3>0, Passing
    <3>2. NoError'
      BY <1>1, <2>1, <2>3 DEF NoError, Advance
    <3>3. pending' = pending \cup {Here(s)} /\ committed' = committed
      <4>1. tx = "open"
        BY <1>1, <2>1, <2>3
      <4>2. QED  BY <1>4, <4>1 DEF Execute
    <3>4. \A y \in MulticastItems :
              returned'[y] = IF y = Here(s) THEN returned[y] + 1 ELSE returned[y]
      BY <2>1, ReturnTypes
    <3>5. ~Done(Here(s))
      <4>1. at \in Nat /\ i \in Nat /\ j \in Nat /\ StepNr[s] = at
        BY <2>1, RunningStep DEF JobTypes, TypeOK
      <4>2. QED  BY <4>1 DEF Done, Here
    <3>6. \A x \in MulticastItems : returned'[x] = IF Done(x)' THEN 1 ELSE 0
      <4> SUFFICES ASSUME NEW x \in MulticastItems
                   PROVE  returned'[x] = IF Done(x)' THEN 1 ELSE 0
        OBVIOUS
      <4>1. /\ Done(x)' <=> Done(x) \/ x = Here(s)
            /\ returned[x] = IF Done(x) THEN 1 ELSE 0
            /\ returned'[x] = IF x = Here(s) THEN returned[x] + 1 ELSE returned[x]
        BY <1>1, <2>1, <2>3, <3>1, <3>4, MulticastPlaced
      <4>2. CASE x = Here(s)
        BY <3>5, <4>1, <4>2
      <4>3. CASE x # Here(s)
        BY <4>1, <4>3
      <4>4. QED  BY <4>2, <4>3
    <3>7. \A x \in Items : x[1] # "generics" \/ start_j = 0 => (x \in pending' <=> Done(x)')
      BY <1>1, <2>1, <2>3, <3>1, <3>3
    <3>8. NothingCommitted'
      BY <1>0, <1>1, <2>1, <2>3, <3>3 DEF NothingCommitted
    <3>9. QED
      BY <1>0, <1>1, <2>1, <2>3, <3>2, <3>6, <3>7, <3>8 DEF CleanInv, CleanEnd, Finished
  <2>4. QED  BY <2>2, <2>3
<1>5. ASSUME NEW s \in StepName, Reject(s) PROVE CleanInv' /\ CleanEnd'
  <2>1. /\ status = "running" /\ commit_faults' = commit_faults /\ errors' \in {errors, errors + 1}
        /\ tx = "open" => errors' = errors + 1
    BY <1>5 DEF Reject, ItemHere, Running, NoTx
  <2>2. CASE clean
    <3>1. errors' = errors + 1
      BY <1>1, <2>1, <2>2
    <3>2. errors' + commit_faults' # 0
      BY <1>0, <2>1, <3>1
    <3>3. QED  BY <1>2, <3>2
  <2>3. CASE ~clean
    <3>1. errors + commit_faults # 0
      BY <2>3
    <3>2. commit_faults' = commit_faults /\ errors' >= errors /\ errors' \in Nat
      BY <1>0, <2>1
    <3>3. errors \in Nat /\ commit_faults \in Nat /\ errors' \in Nat /\ commit_faults' \in Nat
      BY <1>0, <3>2
    <3>5. errors' >= errors /\ commit_faults' >= commit_faults
      BY <3>2, <3>3
    <3>6. errors' + commit_faults' # 0
      BY <3>1, <3>3, <3>5, CountsGrow
    <3>4. QED  BY <1>2, <3>6
  <2>4. QED  BY <2>2, <2>3
<1>6. ASSUME NEW s \in StepName, StepDone(s) PROVE CleanInv' /\ CleanEnd'
  <2>1. /\ Running(s) /\ i > LastRow(s) /\ status = "running"
        /\ UNCHANGED <<given, status, db, flagged, returned, had_error, endpoint, history>>
        /\ checkpoint' \in {checkpoint, [checkpoint EXCEPT !.step = Steps[at + 1]]}
    BY <1>6 DEF StepDone, Running, SetCheckpoint
  <2>2. CASE ~clean
    BY <1>2, <2>1, <2>2
  <2>3. CASE clean
    <3>1. NoError' /\ at' = at + 1 /\ i' = 1 /\ j' = 1
      BY <1>1, <1>6, <2>1, <2>3, StepEnds
    <3>2. \A x \in Items : Done(x)' <=> Done(x)
      BY <1>1, <2>1, <2>3, <3>1, NextStep
    <3>3. NothingCommitted'
      BY <1>0, <1>1, <2>1, <2>3 DEF NothingCommitted
    <3>4. checkpoint'.j = checkpoint.j
      BY <2>1 DEF JobTypes, TypeOK
    <3>5. \A x \in MulticastItems : returned'[x] = IF Done(x)' THEN 1 ELSE 0
      BY <1>1, <2>1, <2>3, <3>2, MulticastPlaced
    <3>6. QED
      BY <1>0, <1>1, <2>1, <2>3, <3>1, <3>2, <3>3, <3>4, <3>5 DEF CleanInv, CleanEnd, Finished
  <2>4. QED  BY <2>2, <2>3
<1>7. CASE Commit
  <2>1. /\ status = "running" /\ at = 7 /\ UNCHANGED <<flagged, returned, errors, commit_faults>>
        /\ committed' = [x \in Items |-> committed[x] + (IF x \in pending THEN 1 ELSE 0)]
        /\ ~had_error => status' = "finished"
    BY <1>7, StepsInOrder DEF Commit, AtCommit, IterationEnds
  <2>2. CASE ~clean
    BY <1>2, <2>1, <2>2
  <2>3. CASE clean
    <3>1. \A x \in Items : Done(x)
      BY <2>1, AllDone
    <3>2. status' = "finished"
      BY <1>1, <2>1, <2>3
    <3>3. \A x \in Items : start_j = 0 => committed'[x] = 1
      BY <1>1, <2>1, <2>3, <3>1 DEF NothingCommitted
    <3>4. QED
      BY <1>0, <1>1, <2>1, <2>3, <3>1, <3>2, <3>3, MulticastPlaced DEF CleanInv, CleanEnd
  <2>4. QED  BY <2>2, <2>3
<1>8. CASE CommitFails \/ CommitInDoubt
  <2>1. /\ status = "running" /\ errors' = errors
        /\ commit_faults' \in {commit_faults, commit_faults + 1}
        /\ tx = "open" => commit_faults' = commit_faults + 1
    BY <1>8 DEF CommitFails, CommitInDoubt, AtCommit
  <2>2. CASE clean
    <3>1. commit_faults' = commit_faults + 1
      BY <1>1, <2>1, <2>2
    <3>2. errors' + commit_faults' # 0
      BY <1>0, <2>1, <3>1
    <3>3. QED  BY <1>2, <3>2
  <2>3. CASE ~clean
    <3>1. errors + commit_faults # 0
      BY <2>3
    <3>2. errors' = errors /\ commit_faults' >= commit_faults /\ commit_faults' \in Nat
      BY <1>0, <2>1
    <3>3. errors \in Nat /\ commit_faults \in Nat /\ errors' \in Nat /\ commit_faults' \in Nat
      BY <1>0, <3>2
    <3>5. errors' >= errors /\ commit_faults' >= commit_faults
      BY <3>2, <3>3
    <3>6. errors' + commit_faults' # 0
      BY <3>1, <3>3, <3>5, CountsGrow
    <3>4. QED  BY <1>2, <3>6
  <2>4. QED  BY <2>2, <2>3
<1>9. ASSUME NEW s \in StepName, PastTheEnd(s) PROVE CleanInv' /\ CleanEnd'
  BY <1>2, <1>9 DEF PastTheEnd
<1>10. QED  BY <1>3, <1>4, <1>5, <1>6, <1>7, <1>8, <1>9 DEF JobNext

\* What goes back to the pool is not taken out again, and the first full iteration returns all.
LEMMA ReturnInductive ==
  ASSUME JobTypes, ReturnInv, JobNext
  PROVE  ReturnInv'
<1> USE DEF db, points, history, given, loop
<1>0. /\ work' = work /\ Items' = Items /\ MulticastItems' = MulticastItems
      /\ \A x \in MulticastItems : returned[x] \in Nat
      /\ \A s \in StepName : s # "finish"
      /\ status = "running"
  BY SameWork, StepsInOrder
     DEF JobTypes, TypeOK, JobNext, Skip, PastTheEnd, Execute, Reject, StepDone,
         Commit, CommitFails, CommitInDoubt, AtCommit, ItemHere, Running
<1>1. \A x \in MulticastItems :
        x \in flagged \/ endpoint.step # "finish" \/ Done(x) => returned[x] >= 1
  BY <1>0 DEF ReturnInv
<1>2. ASSUME status' # "finished",
             status' = "running" => \A x \in MulticastItems :
               x \in flagged' \/ endpoint'.step # "finish" \/ Done(x)' => returned'[x] >= 1
      PROVE  ReturnInv'
  BY <1>0, <1>2 DEF ReturnInv, Finished
<1>3. ASSUME NEW s \in StepName, NEW cp, Running(s), i <= Rows(s), Advance(s, cp),
             endpoint' = endpoint, status' # "finished",
             \A x \in MulticastItems : returned'[x] >= returned[x] /\ returned'[x] \in Nat,
             Here(s) \in MulticastItems => Here(s) \in flagged \/ endpoint.step = s
                                           \/ returned'[Here(s)] >= 1,
             \A x \in MulticastItems : x \in flagged' => x \in flagged \/ x = Here(s),
             Here(s) \in MulticastItems /\ Here(s) \in flagged' =>
               Here(s) \in flagged \/ returned'[Here(s)] >= 1
      PROVE  ReturnInv'
  <2>1. ASSUME NEW x \in MulticastItems, returned[x] >= 1 PROVE returned'[x] >= 1
    BY <1>0, <1>3, <2>1
  <2>2. ASSUME NEW x \in MulticastItems,
               x \in flagged' \/ endpoint'.step # "finish" \/ Done(x)'
        PROVE  returned'[x] >= 1
    <3>1. CASE endpoint.step # "finish"
      BY <1>1, <2>1, <3>1
    <3>2. CASE endpoint.step = "finish"
      <4>1. endpoint.step # s
        BY <1>0, <3>2
      <4>2. x \in Items /\ x[1] # "generics"
        BY MulticastPlaced
      <4>3. Done(x)' => Done(x) \/ x = Here(s)
        BY <1>3, <4>1, <4>2, Passing
      <4>4. x \in flagged \/ Done(x) \/ x = Here(s)
        BY <1>3, <2>2, <3>2, <4>3
      <4>5. CASE x \in flagged \/ Done(x)
        BY <1>1, <2>1, <4>5
      <4>6. CASE x = Here(s)
        <5>1. Here(s) \in flagged \/ returned'[Here(s)] >= 1
          BY <1>3, <4>1, <4>6
        <5>2. QED  BY <1>1, <2>1, <4>6, <5>1
      <4>7. QED  BY <4>4, <4>5, <4>6
    <3>3. QED  BY <3>1, <3>2
  <2>3. QED  BY <1>2, <1>3, <2>2
<1>4. ASSUME NEW s \in StepName, Skip(s) PROVE ReturnInv'
  <2>1. /\ Running(s) /\ i <= Rows(s) /\ Advance(s, checkpoint)
        /\ UNCHANGED <<status, flagged, returned, endpoint>>
    BY <1>4 DEF Skip
  <2>2. Here(s) \in MulticastItems => Here(s) \in flagged \/ endpoint.step = s
    BY <1>4, SkippedIsFlagged, MulticastPlaced
  <2>3. \A x \in MulticastItems : returned'[x] >= returned[x] /\ returned'[x] \in Nat
    BY <1>0, <2>1
  <2>4. QED  BY <1>0, <1>3, <2>1, <2>2, <2>3
<1>5. ASSUME NEW s \in StepName, ItemHere(s), NEW cp, Advance(s, cp), Return(Here(s)),
             endpoint' = endpoint, status' = status,
             \A x \in MulticastItems : x \in flagged' => x \in flagged \/ x = Here(s)
      PROVE  ReturnInv'
  <2>1. Running(s) /\ i <= Rows(s)
    BY <1>5, HereIsItem, WorkTypes DEF ItemHere, JobTypes, TypeOK
  <2>2. \A x \in MulticastItems :
          returned'[x] = IF x = Here(s) THEN returned[x] + 1 ELSE returned[x]
    BY <1>5, ReturnTypes
  <2>3. \A x \in MulticastItems : returned'[x] >= returned[x] /\ returned'[x] \in Nat
    BY <1>0, <2>2
  <2>4. Here(s) \in MulticastItems => returned'[Here(s)] >= 1
    BY <1>0, <2>2
  <2>5. QED  BY <1>0, <1>3, <1>5, <2>1, <2>3, <2>4
<1>6. ASSUME NEW s \in StepName, Execute(s) PROVE ReturnInv'
  BY <1>5, <1>6 DEF Execute
<1>7. ASSUME NEW s \in StepName, Reject(s) PROVE ReturnInv'
  <2>1. /\ ItemHere(s) /\ flagged' = flagged \cup {Here(s)} /\ endpoint' = endpoint
        /\ \/ Return(Here(s)) /\ Advance(s, checkpoint') /\ UNCHANGED status
           \/ status' = "failed"
    BY <1>7 DEF Reject
  <2>2. PICK cp : cp = checkpoint'
    OBVIOUS
  <2>3. CASE Return(Here(s)) /\ Advance(s, cp) /\ UNCHANGED status
    BY <1>5, <2>1, <2>3
  <2>4. CASE status' = "failed"
    BY <1>2, <2>4
  <2>5. QED  BY <2>1, <2>2, <2>3, <2>4
<1>8. ASSUME NEW s \in StepName, StepDone(s) PROVE ReturnInv'
  <2>1. /\ Running(s) /\ i > LastRow(s) /\ i' = 1 /\ j' = 1
        /\ UNCHANGED <<status, flagged, returned, endpoint>>
    BY <1>8 DEF StepDone
  <2>2. ASSUME endpoint.step = "finish" PROVE at' = at + 1
    <3>1. CASE s = "writes"
      BY <1>8, <3>1 DEF StepDone
    <3>2. CASE s # "writes"
      <4>1. at \in 1..6 /\ s = Steps[at]
        BY <2>1, RunningStep
      <4>2. at + 1 \in 1..6
        BY <3>2, <4>1, StepsInOrder
      <4>3. endpoint.step # Steps[at + 1]
        BY <2>2, <4>2, StepsInOrder
      <4>4. QED  BY <1>8, <3>2, <4>3 DEF StepDone
    <3>3. QED  BY <3>1, <3>2
  <2>3. ASSUME NEW x \in MulticastItems, endpoint.step = "finish" PROVE Done(x)' => Done(x)
    BY <1>0, <2>1, <2>2, <2>3, NextStep, MulticastPlaced
  <2>4. ASSUME NEW x \in MulticastItems,
               x \in flagged' \/ endpoint'.step # "finish" \/ Done(x)'
        PROVE  returned'[x] >= 1
    <3>1. x \in flagged \/ endpoint.step # "finish" \/ Done(x)
      BY <2>1, <2>3, <2>4
    <3>2. QED  BY <1>1, <2>1, <3>1
  <2>5. QED  BY <1>0, <1>2, <2>1, <2>4
<1>9. CASE Commit \/ CommitFails \/ CommitInDoubt
  <2>1. at = 7 /\ returned' = returned
    <3>1. AtCommit /\ returned' = returned
      BY <1>9 DEF Commit, CommitFails, CommitInDoubt
    <3>2. QED  BY <3>1, StepsInOrder DEF AtCommit
  <2>2. \A x \in MulticastItems : returned'[x] >= 1
    BY <1>1, <2>1, AllDone, MulticastPlaced
  <2>3. QED  BY <1>0, <2>2 DEF ReturnInv
<1>10. ASSUME NEW s \in StepName, PastTheEnd(s) PROVE ReturnInv'
  BY <1>2, <1>10 DEF PastTheEnd
<1>11. QED
  BY <1>4, <1>6, <1>7, <1>8, <1>9, <1>10 DEF JobNext

\* What the iterations keep up.
CleanJob == JobTypes /\ CleanInv /\ CleanEnd /\ ReturnInv

\* Every step keeps that up.
LEMMA CleanJobInductive == CleanJob /\ [Next]_vars => CleanJob'
<1> SUFFICES ASSUME CleanJob, [Next]_vars PROVE CleanJob'
  OBVIOUS
<1>1. JobTypes'
  BY TypesInductive DEF CleanJob
<1>2. CASE Start
  BY <1>1, <1>2, StartIsClean DEF CleanJob
<1>3. CASE JobNext
  BY <1>1, <1>3, CleanInductive, ReturnInductive DEF CleanJob
<1>4. CASE UNCHANGED vars
  <2>1. /\ work' = work /\ Items' = Items /\ MulticastItems' = MulticastItems
    BY <1>4, SameItems DEF vars, given
  <2>2. /\ UNCHANGED <<status, at, i, j, tx, pending, committed, flagged, returned, had_error,
                       checkpoint, endpoint, start_j, errors, commit_faults>>
    BY <1>4 DEF vars, loop, db, points, history
  <2>3. \A x : Done(x)' <=> Done(x)
    BY <2>2 DEF Done
  <2>4. CleanInv'
    BY <2>1, <2>2, <2>3 DEF CleanJob, CleanInv, NoError, NothingCommitted
  <2>5. CleanEnd' /\ ReturnInv'
    BY <2>1, <2>2, <2>3 DEF CleanJob, CleanEnd, ReturnInv, Finished
  <2>6. QED  BY <1>1, <2>4, <2>5 DEF CleanJob
<1>5. QED  BY <1>2, <1>3, <1>4 DEF Next

\* There is nothing to keep up before the first job.
LEMMA CleanJobInitially == Init => CleanJob
BY TypesInitially DEF Init, CleanJob, CleanInv, CleanEnd, ReturnInv, Finished

\* A job nothing goes wrong in commits each of its items once and flags none, whatever it was
\* given, if its struct's checkpoint_j is 0: the steps' loops miss no item and take none twice.
THEOREM OnceWithoutFaults == Spec => []FaultFreeOnce
<1>1. CleanJob => FaultFreeOnce
  BY DEF CleanJob, CleanEnd, FaultFreeOnce
<1>2. QED  BY <1>1, CleanJobInitially, CleanJobInductive, PTL DEF Spec

\* A job that ends has given every multicast batch back to its pool, exactly once if nothing
\* went wrong: the first iteration goes through all of them, whatever fails in it.
THEOREM BatchesGoBack == Spec => []BuffersComeBack
<1>1. CleanJob => BuffersComeBack
  <2> SUFFICES ASSUME CleanJob, Finished, NEW x \in MulticastItems
               PROVE  /\ returned[x] >= 1
                      /\ errors + commit_faults = 0 => returned[x] = 1
    BY DEF BuffersComeBack
  <2>1. QED  BY DEF CleanJob, CleanEnd, ReturnInv
<1>2. QED  BY <1>1, CleanJobInitially, CleanJobInductive, PTL DEF Spec

-----------------------------------------------------------------------------
(* A job without generic queries in which one thing goes wrong.            *)

Plain == \A x \in Items : x[1] # "generics"

\* The commit failed, and the iteration that starts over has not come to an item yet.
Aborted ==
  /\ NoError /\ commit_faults = 1 /\ tx = "aborted" /\ flagged = {} /\ pending = {}
  /\ NothingCommitted /\ \A x \in Items : ~Done(x)

\* The rest of the iteration in which y was rejected: the new transaction holds what follows y.
Rest(y) ==
  /\ had_error /\ endpoint.step = "finish" /\ checkpoint.step = y[1] /\ tx = "open"
  /\ Done(y) /\ NothingCommitted
  /\ \A x \in Items : x \in pending <=> Done(x) /\ Follows(x, y)

\* The one after that: it goes up to the step of y, and each item it passes is committed at once.
Again(y) ==
  /\ ~had_error /\ endpoint.step = y[1] /\ tx = "closed" /\ pending = {}
  /\ at = 7 \/ at < StepNr[y[1]]
  /\ \A x \in Items : committed[x] = IF Follows(x, y) \/ (EarlierStep(x, y) /\ Done(x))
                                     THEN 1 ELSE 0

\* Only y is flagged; if it was a commit that failed, y is the first item of all.
Blamed(y) == flagged = {y} /\ (commit_faults = 1 => \A x \in Items : x = y \/ Follows(x, y))

OneFault == /\ Plain /\ errors + commit_faults = 1
            /\ closed_tx_executes \/ commit_faults = 1

Redoing == Aborted \/ \E y \in Items : Blamed(y) /\ (Rest(y) \/ Again(y))
Redone == \E y \in Items :
  /\ Blamed(y)
  /\ \A x \in Items : committed[x] = IF Follows(x, y) \/ EarlierStep(x, y) THEN 1 ELSE 0
RedoInv == OneFault => (status = "running" => Redoing) /\ (Finished => Redone)

\* The loops are at an item before all they have not passed.
LEMMA HereIsFirst ==
  ASSUME JobTypes, NEW s \in StepName, Running(s), Here(s) \in Items,
         NEW x \in Items, ~Done(x), x # Here(s)
  PROVE  Follows(x, Here(s))
<1>1. /\ StepNr[x[1]] \in Nat /\ Steps[StepNr[x[1]]] = x[1]
      /\ x[2] \in Nat /\ x[3] \in Nat /\ x = <<x[1], x[2], x[3]>>
  BY ItemsArePlaced DEF Placed
<1>2. /\ StepNr[s] = at /\ Steps[at] = s /\ i \in Nat /\ j \in Nat /\ at \in Nat
      /\ Here(s)[1] = s /\ Here(s)[2] = i /\ Here(s)[3] = j
  BY RunningStep DEF JobTypes, TypeOK, Here
<1>3. x[1] = s /\ x[2] = i => x[3] # j
  BY <1>1 DEF Here
<1>4. QED  BY <1>1, <1>2, <1>3 DEF Done, Follows, EarlierStep, Precedes

\* The loops are not past the place they are at.
LEMMA HereNotDone ==
  ASSUME JobTypes, NEW s \in StepName, Running(s)
  PROVE  ~Done(Here(s))
<1>1. at \in Nat /\ i \in Nat /\ j \in Nat /\ StepNr[s] = at
  BY RunningStep DEF JobTypes, TypeOK
<1>2. QED  BY <1>1 DEF Done, Here

\* No fault is taken back, so the fault there is was the one before, or it is the first.
LEMMA FaultsAddUp ==
  ASSUME JobTypes, JobNext, OneFault'
  PROVE  /\ status = "running" /\ Plain
         /\ \/ errors + commit_faults = 0
            \/ OneFault /\ errors' = errors /\ commit_faults' = commit_faults
         /\ ~(errors' = errors /\ commit_faults' = commit_faults /\ errors + commit_faults = 0)
         /\ errors' = 1 => commit_faults' = 0
         /\ errors' \in Nat /\ commit_faults' \in Nat
<1>1. /\ errors \in Nat /\ commit_faults \in Nat
  BY DEF JobTypes, Counters
<1>2. /\ status = "running" /\ closed_tx_executes' = closed_tx_executes
      /\ \/ errors' = errors /\ commit_faults' = commit_faults
         \/ errors' = errors + 1 /\ commit_faults' = commit_faults
         \/ errors' = errors /\ commit_faults' = commit_faults + 1
  BY DEF JobNext, Skip, PastTheEnd, Execute, Reject, StepDone, Commit, CommitFails,
         CommitInDoubt, AtCommit, ItemHere, Running, given, history
<1>3. Plain
  BY SameWork DEF OneFault, Plain
<1>4. errors' \in Nat /\ commit_faults' \in Nat /\ errors' + commit_faults' = 1
  BY <1>1, <1>2 DEF OneFault
<1>5. CASE errors' = errors /\ commit_faults' = commit_faults
  BY <1>1, <1>2, <1>3, <1>4, <1>5 DEF OneFault
<1>6. CASE errors' = errors + 1 /\ commit_faults' = commit_faults
  BY <1>1, <1>2, <1>3, <1>4, <1>6
<1>7. CASE errors' = errors /\ commit_faults' = commit_faults + 1
  BY <1>1, <1>2, <1>3, <1>4, <1>7
<1>8. QED  BY <1>2, <1>5, <1>6, <1>7

\* An item is rejected for the first time, or blamed for the commit that failed.
LEMMA RejectedIsRest ==
  ASSUME JobTypes, Plain, NEW s \in StepName, Reject(s), status' # "failed",
         NoError, flagged = {}, NothingCommitted,
         commit_faults' = 1 => \A x \in Items : ~Done(x)
  PROVE  \E y \in Items : Blamed(y)' /\ Rest(y)'
<1> USE DEF db, points, history, given, loop
<1>1. /\ ItemHere(s) /\ Running(s) /\ Here(s) \in Items /\ s = Steps[at] /\ at \in 1..6
      /\ StepNr[s] = at /\ i <= Rows(s) /\ s # "generics" /\ Here(s)[1] = s
  <2>1. ItemHere(s)
    BY DEF Reject
  <2>2. Here(s) \in Items /\ i <= Rows(s) /\ Here(s)[1] = s
    BY <2>1, HereIsItem, WorkTypes DEF JobTypes, TypeOK
  <2>3. QED  BY <2>1, <2>2, RunningStep DEF ItemHere, Plain
<1>2. /\ flagged' = flagged \cup {Here(s)} /\ had_error' = TRUE /\ checkpoint' = FoundAt(s)
      /\ NewTx /\ Advance(s, checkpoint') /\ committed' = committed
      /\ endpoint' = endpoint /\ Items' = Items
  BY SameWork DEF Reject, JobNext
<1>3. checkpoint'.step = s
  <2>1. at \in 2..6
    BY <1>1, StepsInOrder
  <2>2. checkpoint.step = s
    BY <1>1, <2>1 DEF NoError
  <2>3. checkpoint \in [step : StepName, i : Nat, j : Nat]
    BY DEF JobTypes, TypeOK
  <2>4. \/ FoundAt(s) = [checkpoint EXCEPT !.i = i, !.j = j - 1]
        \/ FoundAt(s) = [checkpoint EXCEPT !.i = i]
        \/ FoundAt(s) = [checkpoint EXCEPT !.i = i - 1]
    BY DEF FoundAt
  <2>5. QED  BY <1>2, <2>2, <2>3, <2>4
<1>4. \A x \in Items : Done(x)' <=> Done(x) \/ x = Here(s)
  <2>1. PICK cp : cp = checkpoint'
    OBVIOUS
  <2>2. endpoint.step # s
    BY StepsInOrder DEF NoError
  <2>3. Advance(s, cp)
    BY <1>2, <2>1
  <2>4. QED  BY <1>1, <2>2, <2>3, Passing
<1>5. ~Done(Here(s))
  BY <1>1, HereNotDone
<1>6. PICK y \in Items : y = Here(s)
  BY <1>1
<1>7. Blamed(y)'
  <2>1. flagged' = {y}
    BY <1>2, <1>6
  <2>2. ASSUME commit_faults' = 1, NEW x \in Items PROVE x = y \/ Follows(x, y)
    BY <1>1, <1>6, <2>2, HereIsFirst
  <2>3. QED  BY <1>2, <2>1, <2>2 DEF Blamed, Follows, EarlierStep, Precedes
<1>8. Rest(y)'
  <2>1. ASSUME NEW x \in Items PROVE ~(Done(x)' /\ Follows(x, y))
    <3>1. CASE x = y
      BY <3>1, ItemOrder
    <3>2. CASE Done(x)
      <4>1. Follows(y, x)
        BY <1>5, <1>6, <3>2, NotDoneFollows
      <4>2. QED  BY <4>1, ItemOrder
    <3>3. QED  BY <1>4, <1>6, <3>1, <3>2
  <2>2. Done(y)'
    BY <1>4, <1>6
  <2>3. NothingCommitted'
    BY <1>2 DEF NothingCommitted
  <2>4. pending' = {} /\ tx' = "open"
    BY <1>2 DEF NewTx
  <2>5. endpoint'.step = "finish" /\ checkpoint'.step = y[1] /\ had_error'
    BY <1>1, <1>2, <1>3, <1>6 DEF NoError
  <2>6. QED  BY <1>2, <2>1, <2>2, <2>3, <2>4, <2>5 DEF Rest, Follows, EarlierStep, Precedes
<1>9. QED  BY <1>7, <1>8

\* The order of the items is that of what the job was given.
LEMMA SameOrder ==
  /\ \A x, y : Follows(x, y)' <=> Follows(x, y)
  /\ \A x, y : EarlierStep(x, y)' <=> EarlierStep(x, y)
BY DEF Follows, EarlierStep, Precedes

\* The first thing goes wrong.
LEMMA FirstFault ==
  ASSUME JobTypes, CleanInv, JobNext, OneFault', errors + commit_faults = 0
  PROVE  (status' = "running" => Redoing') /\ ~Finished'
<1> USE DEF db, points, history, given, loop
<1>0. /\ status = "running" /\ Plain /\ Items' = Items
      /\ ~(errors' = errors /\ commit_faults' = commit_faults)
      /\ commit_faults = 0
      /\ NoError /\ tx = "open" /\ flagged = {} /\ NothingCommitted
  <2>1. commit_faults = 0
    BY DEF JobTypes, Counters
  <2>2. QED  BY <2>1, FaultsAddUp, SameWork DEF CleanInv
<1>1. ASSUME NEW s \in StepName, Reject(s)
      PROVE  (status' = "running" => Redoing') /\ ~Finished'
  <2>1. status' \in {"running", "failed"} /\ commit_faults' = 0
    BY <1>0, <1>1 DEF Reject
  <2>2. CASE status' # "failed"
    <3>1. \E y \in Items : Blamed(y)' /\ Rest(y)'
      BY <1>0, <1>1, <2>1, <2>2, RejectedIsRest
    <3>2. QED  BY <1>0, <2>1, <3>1 DEF Redoing, Finished
  <2>3. QED  BY <2>1, <2>2 DEF Finished
<1>2. CASE CommitFails
  <2>1. /\ commit_faults' = commit_faults + 1 /\ tx' = "aborted" /\ pending' = {}
        /\ had_error' = FALSE /\ at' = 1 /\ i' = 1 /\ status' = status
        /\ UNCHANGED <<committed, flagged, points>>
    BY <1>0, <1>2 DEF CommitFails, IterationEnds, ForgetError
  <2>2. \A x \in Items' : ~Done(x)'
    BY <1>0, <2>1, NothingDoneNext, PlacedNext DEF Plain
  <2>3. NoError'
    BY <1>0, <2>1 DEF NoError
  <2>4. NothingCommitted'
    BY <1>0, <2>1 DEF NothingCommitted
  <2>5. Aborted'
    BY <1>0, <2>1, <2>2, <2>3, <2>4 DEF Aborted
  <2>6. QED  BY <1>0, <2>1, <2>5 DEF Redoing, Finished
<1>3. CASE CommitInDoubt
  BY <1>3 DEF CommitInDoubt, Finished
<1>4. ASSUME NEW s \in StepName, Skip(s) \/ PastTheEnd(s) \/ Execute(s) \/ StepDone(s)
      PROVE  FALSE
  BY <1>0, <1>4 DEF Skip, PastTheEnd, Execute, StepDone
<1>5. ~Commit
  BY <1>0 DEF Commit
<1>6. QED  BY <1>1, <1>2, <1>3, <1>4, <1>5 DEF JobNext

\* After a failed commit, up to the first item.
LEMMA AbortedGoesOn ==
  ASSUME JobTypes, JobNext, Plain, Aborted, status = "running", commit_faults' = commit_faults
  PROVE  (status' = "running" => Redoing') /\ ~Finished'
<1> USE DEF db, points, history, given, loop
<1>0. /\ Items' = Items
      /\ NoError /\ commit_faults = 1 /\ tx = "aborted" /\ flagged = {} /\ pending = {}
      /\ NothingCommitted /\ \A x \in Items : ~Done(x)
  BY SameWork DEF Aborted
<1>1. \A s \in StepName : endpoint.step # s
  BY <1>0, StepsInOrder DEF NoError
<1>2. ASSUME NEW s \in StepName, Skip(s) PROVE Aborted' /\ status' = status
  <2>1. /\ Running(s) /\ i <= Rows(s) /\ Advance(s, checkpoint)
        /\ UNCHANGED <<status, db, flagged, returned, had_error, points, history>>
    BY <1>2 DEF Skip
  <2>2. \A x \in Items : Done(x)' <=> Done(x) \/ x = Here(s)
    BY <1>1, <2>1, Passing DEF Plain
  <2>3. \A x \in Items : x # Here(s)
    BY <1>0, <1>1, <1>2, SkippedIsFlagged
  <2>4. NoError'
    BY <1>0, <2>1 DEF NoError, Advance
  <2>5. NothingCommitted'
    BY <1>0, <2>1 DEF NothingCommitted
  <2>6. QED  BY <1>0, <2>1, <2>2, <2>3, <2>4, <2>5 DEF Aborted
<1>3. ASSUME NEW s \in StepName, Reject(s)
      PROVE  (status' = "running" => Redoing') /\ ~Finished'
  <2>1. status' \in {"running", "failed"}
    BY <1>3 DEF Reject
  <2>2. CASE status' # "failed"
    <3>1. \E y \in Items : Blamed(y)' /\ Rest(y)'
      BY <1>0, <1>3, <2>2, RejectedIsRest
    <3>2. QED  BY <1>0, <2>1, <2>2, <3>1 DEF Redoing, Finished
  <2>3. QED  BY <2>1, <2>2 DEF Finished
<1>4. ASSUME NEW s \in StepName, StepDone(s) PROVE Aborted' /\ status' = status
  <2>1. /\ Running(s) /\ i > LastRow(s)
        /\ UNCHANGED <<status, tx, pending, committed, flagged, commit_faults>>
    BY <1>4 DEF StepDone
  <2>2. NoError' /\ at' = at + 1 /\ i' = 1 /\ j' = 1
    BY <1>0, <1>4, StepEnds
  <2>3. \A x \in Items : Done(x)' <=> Done(x)
    BY <1>1, <2>1, <2>2, NextStep
  <2>4. NothingCommitted'
    BY <1>0, <2>1 DEF NothingCommitted
  <2>5. QED  BY <1>0, <2>1, <2>2, <2>3, <2>4 DEF Aborted
<1>5. ASSUME CommitFails PROVE Aborted' /\ status' = status
  <2>1. /\ tx' = "aborted" /\ pending' = {} /\ commit_faults' = commit_faults
        /\ had_error' = FALSE /\ at' = 1 /\ i' = 1 /\ status' = status
        /\ UNCHANGED <<committed, flagged, points>>
    BY <1>0, <1>5 DEF CommitFails, IterationEnds, ForgetError
  <2>2. \A x \in Items' : ~Done(x)'
    BY <1>0, <2>1, NothingDoneNext, PlacedNext DEF Plain
  <2>3. NoError'
    BY <1>0, <2>1 DEF NoError
  <2>4. NothingCommitted'
    BY <1>0, <2>1 DEF NothingCommitted
  <2>5. QED  BY <1>0, <2>1, <2>2, <2>3, <2>4 DEF Aborted
<1>6. ~Commit /\ ~CommitInDoubt /\ \A s \in StepName : ~Execute(s)
  BY <1>0 DEF Commit, CommitInDoubt, Execute
<1>7. ASSUME NEW s \in StepName, PastTheEnd(s) PROVE status' = "undefined"
  BY <1>7 DEF PastTheEnd
<1>8. QED  BY <1>2, <1>3, <1>4, <1>5, <1>6, <1>7 DEF JobNext, Redoing, Finished

\* The iteration in which y was rejected.
LEMMA RestGoesOn ==
  ASSUME JobTypes, JobNext, Plain, NEW y \in Items, Blamed(y), Rest(y), status = "running",
         errors' = errors, commit_faults' = commit_faults
  PROVE  (status' = "running" => Redoing') /\ ~Finished'
<1> USE DEF db, points, history, given, loop
<1>0. /\ Items' = Items /\ flagged = {y} /\ errors \in Nat /\ commit_faults \in Nat
      /\ had_error /\ endpoint.step = "finish" /\ checkpoint.step = y[1] /\ tx = "open"
      /\ Done(y) /\ NothingCommitted
      /\ \A x \in Items : x \in pending <=> Done(x) /\ Follows(x, y)
  BY SameWork DEF Rest, Blamed, JobTypes, Counters
<1>1. \A s \in StepName : endpoint.step # s
  BY <1>0, StepsInOrder
<1>2. flagged' = flagged => Blamed(y)'
  BY <1>0, SameOrder DEF Blamed
<1>3. ASSUME flagged' = flagged, had_error' = had_error, endpoint' = endpoint,
             checkpoint' = checkpoint, tx' = tx, committed' = committed, Done(y)',
             \A x \in Items : x \in pending' <=> Done(x)' /\ Follows(x, y)
      PROVE  Redoing'
  <2>1. NothingCommitted'
    BY <1>0, <1>3 DEF NothingCommitted
  <2>2. Rest(y)'
    BY <1>0, <1>3, <2>1, SameOrder DEF Rest
  <2>3. QED  BY <1>0, <1>2, <1>3, <2>2 DEF Redoing
<1>4. ASSUME NEW s \in StepName, Skip(s) PROVE Redoing' /\ status' = status
  <2>1. /\ Running(s) /\ i <= Rows(s) /\ Advance(s, checkpoint)
        /\ UNCHANGED <<status, db, flagged, returned, had_error, points, history>>
    BY <1>4 DEF Skip
  <2>2. \A x \in Items : Done(x)' <=> Done(x) \/ x = Here(s)
    BY <1>1, <2>1, Passing DEF Plain
  <2>3. \A x \in Items : x = Here(s) => Done(x)
    BY <1>0, <1>1, <1>4, SkippedIsFlagged
  <2>4. QED  BY <1>0, <1>3, <2>1, <2>2, <2>3
<1>5. ASSUME NEW s \in StepName, Execute(s) PROVE Redoing' /\ status' = status
  <2>1. /\ ItemHere(s) /\ Running(s) /\ Advance(s, checkpoint)
        /\ pending' = pending \cup {Here(s)}
        /\ UNCHANGED <<status, tx, committed, flagged, had_error, points>>
    BY <1>0, <1>5 DEF Execute, ItemHere
  <2>2. Here(s) \in Items /\ i <= Rows(s)
    BY <2>1, HereIsItem, WorkTypes DEF JobTypes, TypeOK
  <2>3. \A x \in Items : Done(x)' <=> Done(x) \/ x = Here(s)
    BY <1>1, <2>1, <2>2, Passing DEF Plain
  <2>4. Follows(Here(s), y)
    BY <1>0, <2>1, <2>2, HereNotDone, NotDoneFollows
  <2>5. QED  BY <1>0, <1>3, <2>1, <2>3, <2>4
<1>6. ASSUME NEW s \in StepName, Reject(s) PROVE FALSE
  <2>1. errors' = errors + 1
    BY <1>0, <1>6 DEF Reject, NoTx
  <2>2. QED  BY <1>0, <2>1
<1>7. ASSUME NEW s \in StepName, StepDone(s) PROVE Redoing' /\ status' = status
  <2>1. /\ Running(s) /\ i > LastRow(s) /\ i' = 1 /\ j' = 1 /\ checkpoint' = checkpoint
        /\ at' = at + 1
        /\ UNCHANGED <<status, db, flagged, returned, had_error, endpoint, history>>
    BY <1>0, <1>7 DEF StepDone, SetCheckpoint
  <2>2. \A x \in Items : Done(x)' <=> Done(x)
    BY <1>1, <2>1, NextStep
  <2>3. QED  BY <1>0, <1>3, <2>1, <2>2
<1>8. ASSUME Commit PROVE Redoing' /\ status' = status
  <2>1. /\ at = 7 /\ pending' = {} /\ tx' = "closed" /\ endpoint' = checkpoint
        /\ committed' = [x \in Items |-> committed[x] + (IF x \in pending THEN 1 ELSE 0)]
        /\ had_error' = FALSE /\ at' = 1 /\ i' = 1 /\ status' = status /\ flagged' = flagged
    BY <1>0, <1>8, StepsInOrder DEF Commit, AtCommit, IterationEnds, ForgetError
  <2>2. \A x \in Items : ~Done(x)'
    BY <1>0, <2>1, NothingDoneNext, PlacedNext DEF Plain
  <2>3. \A x \in Items : committed'[x] = IF Follows(x, y) THEN 1 ELSE 0
    BY <1>0, <2>1, AllDone DEF NothingCommitted
  <2>4. at' < StepNr[y[1]]
    BY <2>1, ItemsArePlaced, StepsInOrder DEF Plain, Placed
  <2>5. Again(y)'
    BY <1>0, <2>1, <2>2, <2>3, <2>4, SameOrder DEF Again
  <2>6. QED  BY <1>0, <1>2, <2>1, <2>5 DEF Redoing
<1>9. ~CommitFails
  <2>1. CommitFails => commit_faults' = commit_faults + 1
    BY <1>0 DEF CommitFails
  <2>2. QED  BY <1>0, <2>1
<1>10. ASSUME CommitInDoubt \/ \E s \in StepName : PastTheEnd(s)
       PROVE  status' \in {"failed", "undefined"}
  BY <1>10 DEF CommitInDoubt, PastTheEnd
<1>11. QED
  BY <1>4, <1>5, <1>6, <1>7, <1>8, <1>9, <1>10 DEF JobNext, Finished

\* The last iteration: up to the step of y, one by one.
LEMMA AgainGoesOn ==
  ASSUME JobTypes, JobNext, Plain, NEW y \in Items, Blamed(y), Again(y), status = "running",
         errors' = errors, commit_faults' = commit_faults,
         closed_tx_executes \/ commit_faults = 1
  PROVE  (status' = "running" => Redoing') /\ (Finished' => Redone')
<1> USE DEF db, points, history, given, loop
<1>0. /\ Items' = Items /\ flagged = {y} /\ errors \in Nat /\ commit_faults \in Nat
      /\ ~had_error /\ endpoint.step = y[1] /\ tx = "closed" /\ pending = {}
      /\ at = 7 \/ at < StepNr[y[1]]
      /\ \A x \in Items : committed[x] = IF Follows(x, y) \/ (EarlierStep(x, y) /\ Done(x))
                                         THEN 1 ELSE 0
  BY SameWork DEF Again, Blamed, JobTypes, Counters
<1>1. /\ StepNr[y[1]] \in 1..6 /\ Steps[StepNr[y[1]]] = y[1] /\ y[1] \in StepName
  BY ItemsArePlaced DEF Placed
<1>2. flagged' = flagged => Blamed(y)'
  BY <1>0, SameOrder DEF Blamed
<1>3. ASSUME NEW s \in StepName, Running(s)
      PROVE  /\ StepNr[s] = at /\ at \in 1..6 /\ s = Steps[at]
             /\ at < StepNr[y[1]] /\ endpoint.step # s /\ s # y[1]
  BY <1>0, <1>1, <1>3, RunningStep
<1>4. ASSUME flagged' = flagged, had_error' = had_error, endpoint' = endpoint, tx' = tx,
             pending' = pending, at' = 7 \/ at' < StepNr[y[1]],
             \A x \in Items : committed'[x] =
               IF Follows(x, y) \/ (EarlierStep(x, y) /\ Done(x)') THEN 1 ELSE 0
      PROVE  Redoing'
  <2>1. Again(y)'
    BY <1>0, <1>4, SameOrder DEF Again
  <2>2. QED  BY <1>0, <1>2, <1>4, <2>1 DEF Redoing
<1>5. ASSUME NEW s \in StepName, Skip(s) PROVE Redoing' /\ status' = status
  <2>1. /\ Running(s) /\ i <= Rows(s) /\ Advance(s, checkpoint) /\ at' = at
        /\ UNCHANGED <<status, db, flagged, returned, had_error, points, history>>
    BY <1>5 DEF Skip, Advance
  <2>2. \A x \in Items : Done(x)' <=> Done(x) \/ x = Here(s)
    BY <1>3, <2>1, Passing DEF Plain
  <2>3. \A x \in Items : x # Here(s)
    <3>1. y # Here(s)
      BY <1>3, <2>1 DEF Here
    <3>2. QED  BY <1>0, <1>3, <1>5, <2>1, <3>1, SkippedIsFlagged
  <2>4. QED  BY <1>0, <1>3, <1>4, <2>1, <2>2, <2>3
<1>6. ASSUME NEW s \in StepName, ItemHere(s)
      PROVE  /\ Running(s) /\ Here(s) \in Items /\ EarlierStep(Here(s), y)
             /\ ~Follows(Here(s), y) /\ Here(s) # y /\ i <= Rows(s)
  <2>1. Running(s) /\ Here(s) \in Items /\ Here(s)[1] = s /\ i <= Rows(s)
    BY <1>6, HereIsItem, WorkTypes DEF ItemHere, JobTypes, TypeOK
  <2>2. EarlierStep(Here(s), y)
    BY <1>3, <2>1 DEF EarlierStep
  <2>3. QED  BY <1>3, <2>1, <2>2, ItemOrder
<1>7. ASSUME NEW s \in StepName, Execute(s) PROVE Redoing' /\ status' = status
  <2>1. /\ ItemHere(s) /\ Advance(s, checkpoint) /\ at' = at
        /\ committed' = [committed EXCEPT ![Here(s)] = @ + 1]
        /\ UNCHANGED <<status, tx, pending, flagged, had_error, points>>
    BY <1>0, <1>7 DEF Execute, Advance
  <2>2. /\ Running(s) /\ Here(s) \in Items /\ EarlierStep(Here(s), y)
        /\ ~Follows(Here(s), y) /\ i <= Rows(s)
    BY <1>6, <2>1
  <2>3. \A x \in Items : Done(x)' <=> Done(x) \/ x = Here(s)
    BY <1>3, <2>1, <2>2, Passing DEF Plain
  <2>4. committed[Here(s)] = 0
    BY <1>0, <2>2, HereNotDone
  <2>5. committed \in [Items -> Nat]
    BY DEF JobTypes, TypeOK
  <2>6. ASSUME NEW x \in Items
        PROVE  committed'[x] = IF Follows(x, y) \/ (EarlierStep(x, y) /\ Done(x)') THEN 1 ELSE 0
    <3>1. CASE x = Here(s)
      <4>1. committed'[x] = 1
        BY <2>1, <2>4, <2>5, <3>1
      <4>2. QED  BY <2>2, <2>3, <3>1, <4>1
    <3>2. CASE x # Here(s)
      <4>1. committed'[x] = committed[x]
        BY <2>1, <2>5, <3>2
      <4>2. QED  BY <1>0, <2>3, <3>2, <4>1
    <3>3. QED  BY <3>1, <3>2
  <2>7. QED  BY <1>3, <1>4, <2>1, <2>2, <2>6
<1>8. ASSUME NEW s \in StepName, Reject(s) PROVE FALSE
  <2>1. ItemHere(s) /\ (~NoTx => errors' = errors + 1)
    BY <1>8 DEF Reject
  <2>2. commit_faults # 1
    <3>1. /\ Here(s) \in Items /\ ~Follows(Here(s), y) /\ Here(s) # y
      BY <1>6, <2>1
    <3>2. QED  BY <3>1 DEF Blamed
  <2>3. ~NoTx
    BY <1>0, <2>2 DEF NoTx
  <2>4. errors' = errors + 1
    BY <2>1, <2>3
  <2>5. QED  BY <1>0, <2>4
<1>9. ASSUME NEW s \in StepName, StepDone(s) PROVE Redoing' /\ status' = status
  <2>1. /\ Running(s) /\ i > LastRow(s) /\ i' = 1 /\ j' = 1
        /\ UNCHANGED <<status, db, flagged, returned, had_error, endpoint, history>>
    BY <1>9 DEF StepDone
  <2>2. /\ at \in 1..6 /\ s = Steps[at] /\ at < StepNr[y[1]] /\ endpoint.step # s
        /\ s # "writes" /\ Len(Steps) = 6
    <3>1. /\ at \in 1..6 /\ s = Steps[at] /\ at < StepNr[y[1]] /\ endpoint.step # s
          /\ StepNr[s] = at
      BY <1>3, <2>1
    <3>2. StepNr[Steps[6]] = 6 /\ Steps[6] = "writes" /\ Len(Steps) = 6
      BY StepsInOrder
    <3>3. QED  BY <1>1, <3>1, <3>2
  <2>3. IF endpoint.step = Steps[at + 1] THEN at' = 7 ELSE at' = at + 1
    BY <1>0, <1>9, <2>2 DEF StepDone
  <2>4. at + 1 \in 1..6 /\ StepNr[Steps[at + 1]] = at + 1
    BY <1>1, <2>2, StepsInOrder
  <2>5. CASE endpoint.step = Steps[at + 1]
    <3>1. at' = 7 /\ StepNr[y[1]] = at + 1
      BY <1>0, <2>3, <2>4, <2>5
    <3>2. ASSUME NEW x \in Items PROVE EarlierStep(x, y) => Done(x)
      <4>1. StepNr[x[1]] \in Nat /\ (StepNr[x[1]] <= at <=> Done(x))
        BY <2>1, <2>2, EndOfStep, ItemsArePlaced DEF Placed
      <4>2. QED  BY <2>2, <3>1, <4>1 DEF EarlierStep
    <3>3. \A x \in Items : Done(x)'
      <4>1. \A x \in Items : StepNr[x[1]] < 7
        BY ItemsArePlaced DEF Placed
      <4>2. QED  BY <3>1, <4>1 DEF Done
    <3>4. QED  BY <1>0, <1>4, <2>1, <3>1, <3>2, <3>3
  <2>6. CASE endpoint.step # Steps[at + 1]
    <3>1. at' = at + 1 /\ at + 1 < StepNr[y[1]]
      <4>1. StepNr[y[1]] # at + 1
        BY <1>0, <1>1, <2>6
      <4>2. QED  BY <1>1, <2>2, <2>3, <2>6, <4>1
    <3>2. \A x \in Items : Done(x)' <=> Done(x)
      BY <2>1, <2>2, <3>1, NextStep
    <3>3. QED  BY <1>0, <1>4, <2>1, <3>1, <3>2
  <2>7. QED  BY <2>5, <2>6
<1>10. ASSUME Commit PROVE Redone' /\ status' = "finished"
  <2>1. /\ at = 7 /\ status' = "finished" /\ flagged' = flagged
        /\ committed' = [x \in Items |-> committed[x] + (IF x \in pending THEN 1 ELSE 0)]
    BY <1>0, <1>10, StepsInOrder DEF Commit, AtCommit, IterationEnds
  <2>2. \A x \in Items : committed'[x] = IF Follows(x, y) \/ EarlierStep(x, y) THEN 1 ELSE 0
    BY <1>0, <2>1, AllDone
  <2>3. QED  BY <1>0, <1>2, <2>1, <2>2, SameOrder DEF Redone
<1>11. ~CommitFails /\ ~CommitInDoubt
  BY <1>0 DEF CommitFails, CommitInDoubt
<1>12. ASSUME NEW s \in StepName, PastTheEnd(s) PROVE status' = "undefined"
  BY <1>12 DEF PastTheEnd
<1>13. QED
  BY <1>5, <1>7, <1>8, <1>9, <1>10, <1>11, <1>12 DEF JobNext, Finished

\* A job in which one thing goes wrong goes through the phases in their order.
LEMMA RedoInductive ==
  ASSUME JobTypes, CleanInv, RedoInv, JobNext
  PROVE  RedoInv'
<1> SUFFICES ASSUME OneFault'
             PROVE  (status' = "running" => Redoing') /\ (Finished' => Redone')
  BY DEF RedoInv
<1>1. CASE errors + commit_faults = 0
  BY <1>1, FirstFault
<1>2. CASE ~(errors + commit_faults = 0)
  <2>1. /\ OneFault /\ Plain /\ status = "running" /\ Redoing
        /\ errors' = errors /\ commit_faults' = commit_faults
    BY <1>2, FaultsAddUp DEF RedoInv
  <2>2. CASE Aborted
    BY <2>1, <2>2, AbortedGoesOn
  <2>3. ASSUME NEW y \in Items, Blamed(y), Rest(y)
        PROVE  (status' = "running" => Redoing') /\ (Finished' => Redone')
    BY <2>1, <2>3, RestGoesOn
  <2>4. ASSUME NEW y \in Items, Blamed(y), Again(y)
        PROVE  (status' = "running" => Redoing') /\ (Finished' => Redone')
    BY <2>1, <2>4, AgainGoesOn DEF OneFault
  <2>5. QED  BY <2>1, <2>2, <2>3, <2>4 DEF Redoing
<1>3. QED  BY <1>1, <1>2

RedoJob == CleanJob /\ RedoInv

\* Every step keeps that up, too.
LEMMA RedoJobInductive == RedoJob /\ [Next]_vars => RedoJob'
<1> SUFFICES ASSUME RedoJob, [Next]_vars PROVE RedoJob'
  OBVIOUS
<1>1. CleanJob'
  BY CleanJobInductive DEF RedoJob
<1>2. CASE Start
  <2>1. errors' + commit_faults' = 0
    BY <1>2 DEF Start
  <2>2. QED  BY <1>1, <2>1 DEF RedoJob, RedoInv, OneFault
<1>3. CASE JobNext
  BY <1>1, <1>3, RedoInductive DEF RedoJob, CleanJob
<1>4. CASE UNCHANGED vars
  <2>1. Items' = Items
    BY <1>4, SameItems DEF vars, given
  <2>2. /\ UNCHANGED <<status, at, i, j, tx, pending, committed, flagged, had_error,
                       checkpoint, endpoint, errors, commit_faults, closed_tx_executes>>
    BY <1>4 DEF vars, loop, db, points, history, given
  <2>3. \A x : Done(x)' <=> Done(x)
    BY <2>2 DEF Done
  <2>4. \A y : (Blamed(y)' <=> Blamed(y)) /\ (Rest(y)' <=> Rest(y)) /\ (Again(y)' <=> Again(y))
    BY <2>1, <2>2, <2>3, SameOrder DEF Blamed, Rest, Again, NothingCommitted
  <2>5. Aborted' <=> Aborted
    BY <2>1, <2>2, <2>3 DEF Aborted, NoError, NothingCommitted
  <2>6. Redoing' <=> Redoing
    BY <2>1, <2>4, <2>5 DEF Redoing
  <2>7. Redone' <=> Redone
    BY <2>1, <2>2, <2>4, SameOrder DEF Redone
  <2>8. QED  BY <1>1, <2>1, <2>2, <2>6, <2>7 DEF RedoJob, RedoInv, OneFault, Plain, Finished
<1>5. QED  BY <1>2, <1>3, <1>4 DEF Next

\* Nothing goes wrong before the first job.
LEMMA RedoJobInitially == Init => RedoJob
BY CleanJobInitially DEF Init, RedoJob, RedoInv, OneFault

\* One rejected item, in a job without generic queries, costs the items before it in its own
\* step and no others: the rest of its iteration commits what follows it, and the next one
\* what is in the earlier steps, each once.
THEOREM OneRejectionCostsItsStep == Spec => []LossIsWithinTheStep
<1>1. RedoJob => LossIsWithinTheStep
  <2> SUFFICES ASSUME RedoJob, Finished, errors = 1, commit_faults = 0, closed_tx_executes,
                      \A x \in Items : x[1] # "generics", NEW x \in Items
               PROVE  committed[x] =
                        IF x \in flagged \/ \E y \in flagged : Precedes(x, y) THEN 0 ELSE 1
    BY DEF LossIsWithinTheStep
  <2>1. PICK y \in Items :
          /\ Blamed(y)
          /\ \A z \in Items : committed[z] = IF Follows(z, y) \/ EarlierStep(z, y) THEN 1 ELSE 0
    BY DEF RedoJob, RedoInv, OneFault, Plain, Redone
  <2>2. ~(Follows(x, y) \/ EarlierStep(x, y)) <=> x = y \/ Precedes(x, y)
    BY <2>1, ItemOrder
  <2>3. flagged = {y}
    BY <2>1 DEF Blamed
  <2>4. QED  BY <2>1, <2>2, <2>3
<1>2. QED  BY <1>1, RedoJobInitially, RedoJobInductive, PTL DEF Spec

\* A commit that fails costs a job without generic queries its first item, which is taken for
\* the cause and flagged; all the rest are committed once.
THEOREM FailedCommitCostsTheFirst == Spec => []CommitFaultCostsOne
<1>1. RedoJob => CommitFaultCostsOne
  <2> SUFFICES ASSUME RedoJob, Finished, errors = 0, commit_faults = 1,
                      \A x \in Items : x[1] # "generics"
               PROVE  \E x \in Items :
                        /\ flagged = {x}
                        /\ \A y \in Items : committed[y] = IF y = x THEN 0 ELSE 1
    BY DEF CommitFaultCostsOne
  <2>1. PICK y \in Items :
          /\ Blamed(y)
          /\ \A z \in Items : committed[z] = IF Follows(z, y) \/ EarlierStep(z, y) THEN 1 ELSE 0
    BY DEF RedoJob, RedoInv, OneFault, Plain, Redone
  <2>2. flagged = {y} /\ \A z \in Items : z = y \/ Follows(z, y)
    BY <2>1 DEF Blamed
  <2>3. \A z \in Items : committed[z] = IF z = y THEN 0 ELSE 1
    <3>1. ~(Follows(y, y) \/ EarlierStep(y, y))
      BY <2>1, ItemOrder
    <3>2. QED  BY <2>1, <2>2, <3>1
  <2>4. QED  BY <2>2, <2>3
<1>2. QED  BY <1>1, RedoJobInitially, RedoJobInductive, PTL DEF Spec

=============================================================================
