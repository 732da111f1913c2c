----------------------------- MODULE MCToolChain -----------------------------
(***************************************************************************)
(* The instance of ToolChain that TLC checks: tools of                     *)
(* configfiles/middleman/ToolsConfig, in their order.  Of those with a     *)
(* thread that never stops itself, which do the same in this module,       *)
(* multicastWorkers stands for all.                                        *)
(***************************************************************************)
EXTENDS ToolChain

MCOrder == <<"loggingReceiver", "monitoringReceiver", "readReceiver", "writeReceiver",
             "multicastWorkers", "jobManager", "monitoring", "gracefulStop">>
MCThreaded == Tool \ {"jobManager", "gracefulStop"}
MCReceivers == {"loggingReceiver", "monitoringReceiver", "readReceiver", "writeReceiver"}
=============================================================================
