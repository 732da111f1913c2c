----------------------------- MODULE MCWriteBatch -----------------------------
EXTENDS WriteBatch

MCTopicOrder == <<"alarm", "dev_config", "calibration">>

Good == {[topic |-> t, bad |-> FALSE] : t \in Topic \cup {"generic"}}
Bad  == {[topic |-> t, bad |-> TRUE] : t \in {"dev_config", "generic"}}
Unknown == {[topic |-> "unknown", bad |-> FALSE]}

AllMessages == Good \cup Bad \cup Unknown
KnownMessages == Good \cup Bad
=============================================================================
