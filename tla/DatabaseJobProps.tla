--------------------------- MODULE DatabaseJobProps ---------------------------
(***************************************************************************)
(* What is required of a database job, and what it delivers.               *)
(***************************************************************************)
EXTENDS DatabaseJob

\* The variables hold what the C++ members they stand for can hold.
TypeOK ==
  /\ work \in Works
  /\ status \in {"idle", "running", "finished", "failed", "undefined"}
  /\ at \in 1..(Len(Steps) + 1) /\ i \in Nat /\ j \in Nat
  /\ tx \in {"open", "closed", "aborted"}
  /\ pending \subseteq Items /\ flagged \subseteq Items
  /\ pending # {} => tx = "open"
  /\ committed \in [Items -> Nat] /\ returned \in [MulticastItems -> Nat]
  /\ {connected, had_error} \subseteq BOOLEAN
  /\ checkpoint \in [step : StepName, i : Nat, j : Nat]
  /\ endpoint \in [step : StepName \cup {"finish"}, i : Nat, j : Nat]

Finished == status = "finished"

\* A job nothing goes wrong in commits each of its items once, and says so of
\* each.  (A struct's checkpoint_j is never initialised; see GenericsExecuted.)
FaultFreeOnce ==
  Finished /\ errors + commit_faults = 0 /\ start_j = 0 =>
    /\ flagged = {}
    /\ \A x \in Items : committed[x] = 1

\* Item x comes before item y in the same step.
Precedes(x, y) ==
  x[1] = y[1] /\ (x[2] < y[2] \/ (x[2] = y[2] /\ x[3] < y[3]))

\* One rejected item, in a job without generic queries, costs the items before it
\* in its own step and no others: all the rest are committed once.
LossIsWithinTheStep ==
  /\ Finished /\ errors = 1 /\ commit_faults = 0 /\ closed_tx_executes
  /\ \A x \in Items : x[1] # "generics"
  => \A x \in Items : committed[x] =
       IF x \in flagged \/ \E y \in flagged : Precedes(x, y) THEN 0 ELSE 1

\* Every multicast batch goes back to its pool, exactly once if all goes well.
BuffersComeBack ==
  Finished => \A x \in MulticastItems :
    /\ returned[x] >= 1
    /\ errors + commit_faults = 0 => returned[x] = 1

\* A commit that fails costs a job without generic queries its first item: that
\* one is taken for the cause and flagged, and all the rest are committed once.
CommitFaultCostsOne ==
  /\ Finished /\ errors = 0 /\ commit_faults = 1
  /\ \A x \in Items : x[1] # "generics"
  => \E x \in Items :
       /\ flagged = {x}
       /\ \A y \in Items : committed[y] = IF y = x THEN 0 ELSE 1

\* However many items are rejected, a job ends: every iteration that starts over has
\* fewer to try.  Not so if a commit fails when there is no item left to blame.
JobEnds == (status = "running") ~> (status # "running" \/ commit_faults > 0)

-----------------------------------------------------------------------------
(* What comments in the source say of the job, and is not so.              *)

\* "re-run up to the point of last error (endpoint), this time skipping bad
\* queries": nothing but what is flagged bad is lost.
RerunRestoresTheRest ==
  Finished => \A x \in Items : x \in flagged \/ committed[x] >= 1

\* "keep trying until we've submitted everything we can": a job nothing goes
\* wrong in submits its generic queries.
GenericsExecuted ==
  Finished /\ errors + commit_faults = 0 =>
    \A x \in Items : x[1] = "generics" => committed[x] = 1

=============================================================================
