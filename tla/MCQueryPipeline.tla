--------------------------- MODULE MCQueryPipeline ---------------------------
EXTENDS QueryPipelineProps, TLC
CONSTANTS b1, b2, b3, b4, b5, r1, r2, w1, j1, j2

Symmetry == Permutations(Batch) \cup Permutations(ReadQuery)
              \cup Permutations(WriteQuery) \cup Permutations(DbJob)

\* Symmetry reduction is not sound for liveness.  Which batches the receivers start
\* with, and which is the next new one, only names them, so the liveness run fixes
\* that choice instead: the batches are created in this order.
Names == <<b1, b2, b3, b4, b5>>
InOrder(S) == \E n \in DOMAIN Names : S = {Names[i] : i \in 1..n}

LiveInit ==
  /\ Init
  /\ held[in_local_queue("read")] = <<b1>> /\ held[in_local_queue("write")] = <<b2>>

LiveSpec == LiveInit /\ [][Next /\ InOrder(Created')]_vars /\ Fairness
=============================================================================
