---------------------------- MODULE MCMulticastPath ----------------------------
EXTENDS MulticastPath
CONSTANTS l1, m1, m2, p1, x1, b1, b2

\* Plots come to the monitoring receiver too.  One kind of plot stands for two.
MCTopicOrder == <<"log", "mon", "rootplot">>
MCTopicOf == l1 :> "log" @@ m1 :> "mon" @@ m2 :> "mon" @@ p1 :> "rootplot" @@ x1 :> "bad"

\* Both receivers at work; more than a buffer is for; two topics; something to send.
OneLoad(logging, monitoring, out) ==
  [in  |-> [r \in Receiver |-> IF r = "logging" THEN logging ELSE monitoring],
   out |-> [r \in Receiver |-> IF r = "logging" THEN 0 ELSE out]]
MCLoad == {OneLoad(<<l1>>, <<m1>>, 0), OneLoad(<<>>, <<m1, x1, m2>>, 0),
           OneLoad(<<>>, <<m1, p1>>, 0), OneLoad(<<>>, <<m1>>, 2)}

\* Which buffers the receivers start with is only a matter of names.
MCInit ==
  Init /\ in_local_queue["logging"] = b1 /\ in_local_queue["monitoring"] = b2
MCSpec == MCInit /\ [][Next]_vars /\ Fairness
=============================================================================
