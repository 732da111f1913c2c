---------------------------- MODULE QueryService ----------------------------
(***************************************************************************)
(* What the middleman promises a client about its queries, with no batch,  *)
(* queue or job in sight: a query that is accepted is executed and then    *)
(* answered, once; or it is lost, and then never answered.                 *)
(***************************************************************************)
CONSTANT Query

VARIABLE status    \* how far each query has come

Status == {"new", "accepted", "executed", "answered", "lost"}

Init == status = [q \in Query |-> "new"]

Become(Q, from, to) ==
  /\ \A q \in Q : status[q] \in from
  /\ status' = [q \in Query |-> IF q \in Q THEN to ELSE status[q]]

\* A query comes in on one of the two sockets.
Accept(q) == Become({q}, {"new"}, "accepted")

\* The database job that was given these queries is done with them.
Execute(Q) == Become(Q, {"accepted"}, "executed")

\* The client is told the outcome.
Answer(q) == Become({q}, {"executed"}, "answered")

\* A job fails with the queries it holds, or a reply cannot be sent.
Lose(Q) == Become(Q, {"accepted", "executed"}, "lost")

Next ==
  \/ \E q \in Query : Accept(q) \/ Answer(q)
  \/ \E Q \in SUBSET Query : Execute(Q) \/ Lose(Q)

Spec == Init /\ [][Next]_status
=============================================================================
