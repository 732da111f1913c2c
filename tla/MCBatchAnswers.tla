---------------------------- MODULE MCBatchAnswers ----------------------------
(***************************************************************************)
(* The instance of BatchAnswers that TLC checks.                           *)
(***************************************************************************)
EXTENDS BatchAnswers

CONSTANTS d1, d2

MCDevice == {d1, d2}
MCTopicOrder == <<"alarm", "dev_config", "calibration">>
MCTopic == {"alarm", "dev_config", "calibration", "generic"}
MCMessages == {[topic |-> t, bad |-> FALSE] : t \in MCTopic \cup {"unknown"}}
              \cup {[topic |-> t, bad |-> TRUE] : t \in {"dev_config", "generic"}}
=============================================================================
