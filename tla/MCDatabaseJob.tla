---------------------------- MODULE MCDatabaseJob ----------------------------
EXTENDS DatabaseJobProps

Job(l, m, r, p, ws) == [logging |-> l, monitoring |-> m, rootplots |-> r,
                        plotlyplots |-> p, writes |-> ws]
Batch(g, ps) == [generics |-> g, parts |-> ps]

\* Two batches of the same kind before and after another kind; write batches with
\* two buffers; generic queries in two batches; and a job with reads only.
MixedWorks ==
  {Job(0, 0, 0, 0, <<>>),
   Job(2, 1, 0, 0, <<>>),
   Job(2, 0, 1, 0, <<Batch(0, {"alarms", "devconfigs"})>>),
   Job(0, 1, 0, 2, <<Batch(0, {"devconfigs"}), Batch(0, {"calibrations", "plotlyplots"})>>),
   Job(1, 0, 0, 0, <<Batch(2, {}), Batch(1, {"alarms"})>>),
   Job(0, 0, 0, 0, <<Batch(1, {"runmode_configs"}), Batch(2, {})>>),
   Job(1, 1, 1, 1, <<Batch(1, {"base_configs", "rootplots"})>>)}

\* Those without generic queries.
PlainWorks ==
  {w \in MixedWorks : \A n \in DOMAIN w["writes"] : w["writes"][n].generics = 0}

=============================================================================
