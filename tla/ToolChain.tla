------------------------------ MODULE ToolChain ------------------------------
(***************************************************************************)
(* The life of the program: run_middleman.sh starts it in a loop, the main *)
(* thread initialises the tools in their order, executes them in rounds,   *)
(* and finalises them; a tool whose thread stopped is restarted in a round *)
(* by its own Finalise and Initialise.  An Initialise may fail; neither    *)
(* the tool chain (error_level 0) nor Execute gives up then.  Meanwhile    *)
(* Monitoring's thread publishes the statistics of all tools.              *)
(*                                                                         *)
(* Of the locks those are modelled that are held together: each tool takes *)
(* monitoring_variables_mtx to enter and leave the map of statistics, the  *)
(* publisher holds it while it puts its messages in out_mon_msg_queue, and *)
(* the monitoring receiver's Finalise takes it before it releases the lock *)
(* of that queue.                                                          *)
(*                                                                         *)
(* An operator named Bug... is what a plausible mistake would make of the  *)
(* definition after it; nothing uses it.                                   *)
(***************************************************************************)
EXTENDS Naturals, Sequences, SequencesExt, FiniteSets

CONSTANTS
  Order,         \* the tools, in the order of ToolsConfig
  Threaded,      \* tools with a thread, whose Execute looks after it
  Receivers,     \* those whose thread stops itself on some errors
  MaxStopped,    \* bounds the tools that are stopped at one time
  MaxRequests    \* bounds the requests to stop the program

Tool == ToSet(Order)

ASSUME ToolChainAssumption ==
  /\ Receivers \subseteq Threaded /\ Threaded \subseteq Tool
  /\ {"monitoringReceiver", "monitoring", "gracefulStop"} \subseteq Tool
  /\ "gracefulStop" \notin Threaded
  /\ Order \in Seq(Tool) /\ IsInjective(Order) /\ Order[Len(Order)] = "gracefulStop"
  /\ MaxStopped \in Nat /\ MaxRequests \in Nat

VARIABLES
  chain,       \* what the main thread does to the tools: initialise, execute, finalise; ended
  k,           \* the tool it is at
  task,        \* what it does there
  monitoring_variables,   \* the tools in the map
  publisher,   \* Monitoring's thread: none, asleep, or publishing, with the lock of the map
  unread,      \* the entries it has yet to come to
  stopped,     \* tools whose thread does not run: it stopped, or was not created
  gotStopSignal,
  stop,        \* the main thread was commanded to stop
  lost,        \* a command to stop was sent and is lost
  quitfile,    \* there is one
  over,        \* the script ended
  requests

main  == <<chain, k, task>>
stats == <<monitoring_variables, publisher, unread>>
ctrl  == <<gotStopSignal, stop, lost>>
files == <<quitfile, over>>
vars  == <<main, stats, stopped, ctrl, files, requests>>

Init ==
  /\ chain = "initialise" /\ k = 1 /\ task = "initialise"
  /\ monitoring_variables = {} /\ publisher = "none" /\ unread = 0
  /\ stopped = {}
  /\ gotStopSignal = FALSE /\ stop = FALSE /\ lost = FALSE
  /\ quitfile = FALSE /\ over = FALSE
  /\ requests = 0

-----------------------------------------------------------------------------
(* The main thread.                                                        *)

At(t, what) == k <= Len(Order) /\ Order[k] = t /\ task = what /\ chain # "ended"

\* From one tool to the next, and from one round to another.
NextTool ==
  \/ /\ k < Len(Order)
     /\ k' = k + 1 /\ chain' = chain
     /\ task' = IF chain = "execute" THEN "check" ELSE chain
  \/ /\ k = Len(Order)
     /\ k' = 1
     /\ chain' = CASE chain = "initialise" -> "execute"
                   [] chain = "execute"    -> IF stop THEN "finalise" ELSE "execute"
                   [] OTHER                -> "ended"
     /\ task' = IF chain' = "execute" THEN "check" ELSE chain'

Here(what) == task' = what /\ UNCHANGED <<chain, k>>

BugMapUnlocked == TRUE
MapIsFree == publisher # "publishing"

\* GracefulStop has no statistics.
Published == Tool \ {"gracefulStop"}

Initialise(t) ==
  /\ At(t, "initialise")
  /\ t \in Published => MapIsFree
  /\ monitoring_variables' = monitoring_variables \cup ({t} \cap Published)
  /\ publisher' = IF t = "monitoring" THEN "asleep" ELSE publisher
  /\ stopped' = stopped \ {t}
  /\ NextTool
  /\ UNCHANGED <<unread, ctrl, files, requests>>

MayStop(t) == Cardinality(stopped \cup {t}) <= MaxStopped

\* The receivers of multicasts may fail before they enter the map, at their socket;
\* they and the other tools after it, when the thread is not created.  The caller goes
\* on as if nothing had happened.
Multicast == {"loggingReceiver", "monitoringReceiver"}

InitialiseFails(t) ==
  /\ At(t, "initialise")
  /\ t \in Threaded /\ MayStop(t)
  /\ \/ MapIsFree /\ monitoring_variables' = monitoring_variables \cup {t}
     \/ t \in Multicast /\ UNCHANGED monitoring_variables
  /\ stopped' = stopped \cup {t}
  /\ NextTool
  /\ UNCHANGED <<publisher, unread, ctrl, files, requests>>

\* Execute restarts its tool if the thread does not run, whatever came of that before.
BugIfPublished(t) == t \in stopped \cap monitoring_variables
MustRestart(t) == t \in stopped

Restart(t) ==
  /\ At(t, "check")
  /\ MustRestart(t)
  /\ Here("finalise")
  /\ UNCHANGED <<stats, stopped, ctrl, files, requests>>

Execute(t) ==
  /\ At(t, "check")
  /\ ~MustRestart(t)
  /\ t = "gracefulStop" => ~gotStopSignal
  /\ NextTool
  /\ UNCHANGED <<stats, stopped, ctrl, files, requests>>

\* GracefulStop sends the commands to the main thread itself, which is to receive them
\* after the round.  A failed send is only logged.
SendCommand ==
  /\ At("gracefulStop", "check")
  /\ gotStopSignal
  /\ \/ stop' = TRUE /\ lost' = FALSE
     \/ stop' = stop /\ lost' = TRUE
  /\ Here("reset")
  /\ UNCHANGED <<stats, stopped, gotStopSignal, files, requests>>

\* No reply is waited for, whatever became of the commands.
ResetSignal ==
  /\ At("gracefulStop", "reset")
  /\ gotStopSignal' = FALSE
  /\ NextTool
  /\ UNCHANGED <<stats, stopped, stop, lost, files, requests>>

\* KillThread joins the tool's thread, if there is one; Monitoring's is woken, and done
\* once it publishes.
Join(t) ==
  /\ At(t, "finalise")
  /\ t = "monitoring" => publisher # "publishing"
  /\ publisher' = IF t = "monitoring" THEN "none" ELSE publisher
  /\ Here("erase")
  /\ UNCHANGED <<monitoring_variables, unread, stopped, ctrl, files, requests>>

Left == IF chain = "execute" THEN Here("initialise") ELSE NextTool

Erase(t) ==
  /\ At(t, "erase")
  /\ t \in Published => MapIsFree
  /\ monitoring_variables' = monitoring_variables \ {t}
  /\ Left
  /\ UNCHANGED <<publisher, unread, stopped, ctrl, files, requests>>

\* The receivers of multicasts give up if their socket does not close.
CloseFails(t) ==
  /\ At(t, "finalise")
  /\ t \in Multicast
  /\ Left
  /\ UNCHANGED <<stats, stopped, ctrl, files, requests>>

\* The monitoring receiver holds the lock of the out queue until it has that of the map.
QueueLocked == At("monitoringReceiver", "erase")

MainStep ==
  \/ \E t \in Tool : \/ Initialise(t) \/ InitialiseFails(t)
                    \/ Restart(t) \/ Execute(t)
                    \/ Join(t) \/ Erase(t) \/ CloseFails(t)
  \/ SendCommand \/ ResetSignal

-----------------------------------------------------------------------------
(* The other threads.                                                      *)

WakeUp ==
  /\ publisher = "asleep"
  /\ publisher' = "publishing"
  /\ unread' = Cardinality(monitoring_variables)
  /\ UNCHANGED <<main, monitoring_variables, stopped, ctrl, files, requests>>

PushStatistics ==
  /\ publisher = "publishing" /\ unread > 0
  /\ ~QueueLocked
  /\ unread' = unread - 1
  /\ UNCHANGED <<main, monitoring_variables, publisher, stopped, ctrl, files, requests>>

FallAsleep ==
  /\ publisher = "publishing" /\ unread = 0
  /\ publisher' = "asleep"
  /\ UNCHANGED <<main, monitoring_variables, unread, stopped, ctrl, files, requests>>

PublisherStep == WakeUp \/ PushStatistics \/ FallAsleep

\* A receiver's thread is there from the tool's Initialise on.
ReceiverStops(t) ==
  /\ t \in (Receivers \cap monitoring_variables) \ stopped
  /\ MayStop(t)
  /\ stopped' = stopped \cup {t}
  /\ UNCHANGED <<main, stats, ctrl, files, requests>>

-----------------------------------------------------------------------------
(* Requests to stop, and the script.                                       *)

Handling == chain # "initialise"    \* GracefulStop is the last tool
Request == requests < MaxRequests /\ chain # "ended" /\ requests' = requests + 1

\* SIGUSR1; before GracefulStop has set its handler it kills the program.
Signal ==
  /\ Request
  /\ \/ Handling /\ gotStopSignal' = TRUE /\ UNCHANGED <<chain, publisher>>
     \/ ~Handling /\ chain' = "ended" /\ publisher' = "none" /\ UNCHANGED gotStopSignal
  /\ UNCHANGED <<k, task, monitoring_variables, unread, stopped, stop, lost, files>>

\* The button of slow control, whose thread Monitoring starts and stops; it has it as
\* long as it is in the map.
StopAndQuit ==
  /\ Request
  /\ Handling /\ "monitoring" \in monitoring_variables
  /\ quitfile' = TRUE
  /\ gotStopSignal' = TRUE
  /\ UNCHANGED <<main, stats, stopped, stop, lost, over>>

\* The program is over, and with it all its state.  The script runs it again, unless
\* there is a quit file.
BugNeverQuits == TRUE
RunsAgain == ~quitfile

ScriptLoops ==
  /\ chain = "ended" /\ ~over
  /\ RunsAgain
  /\ chain' = "initialise" /\ k' = 1 /\ task' = "initialise"
  /\ monitoring_variables' = {} /\ publisher' = "none" /\ unread' = 0
  /\ stopped' = {}
  /\ gotStopSignal' = FALSE /\ stop' = FALSE /\ lost' = FALSE
  /\ UNCHANGED <<files, requests>>

ScriptEnds ==
  /\ chain = "ended" /\ ~over
  /\ ~RunsAgain
  /\ quitfile' = FALSE /\ over' = TRUE
  /\ UNCHANGED <<main, stats, stopped, ctrl, requests>>

Next ==
  \/ MainStep \/ PublisherStep
  \/ \E t \in Tool : ReceiverStops(t)
  \/ Signal \/ StopAndQuit \/ ScriptLoops \/ ScriptEnds

Spec == Init /\ [][Next]_vars

\* Every thread is scheduled.  The main thread has the lock of the map some time, since
\* the publisher sleeps most of the time.
Fairness ==
  /\ SF_vars(MainStep)
  /\ WF_vars(PublisherStep)
  /\ WF_vars(ScriptLoops \/ ScriptEnds)

FairSpec == Spec /\ Fairness

-----------------------------------------------------------------------------
\* The publisher never has more entries ahead of it than there are: none is taken out
\* of the map while it is at it.
TypeOK ==
  /\ chain \in {"initialise", "execute", "finalise", "ended"}
  /\ k \in 1..Len(Order)
  /\ task \in {"initialise", "check", "reset", "finalise", "erase", "ended"}
  /\ monitoring_variables \subseteq Tool /\ stopped \subseteq Threaded
  /\ publisher \in {"none", "asleep", "publishing"}
  /\ unread \in 0..Cardinality(monitoring_variables)
  /\ {gotStopSignal, stop, lost, quitfile, over} \subseteq BOOLEAN
  /\ requests \in 0..MaxRequests

\* The main thread has the lock of the out queue and waits for that of the map, the
\* publisher has that of the map and will wait for that of the out queue.
Inverted == QueueLocked /\ publisher = "publishing" /\ unread > 0

\* "Received SIGUSR1, terminating ToolChain": all tools are finalised.  "Stopping and
\* preventing automatic restart": the script ends, however many other requests there
\* are.  But a command may be lost on the way, and the inversion may come first.
StopIsHeeded ==
  /\ gotStopSignal ~> (chain = "ended" \/ lost \/ Inverted)
  /\ quitfile ~> (over \/ lost \/ Inverted)

\* Execute ignores what Initialise returns ("should we give up if Initialise returns
\* false?"), so a failed one must not be the last: a tool whose thread does not run,
\* because it stopped or was never created, comes to its Initialise, and when that fails
\* comes to it again, until it runs or the program ends; unless the inversion comes
\* first.  It may fail for ever; that it succeeds is not said.
StoppedIsTriedAgain ==
  \A t \in Threaded :
    t \in stopped ~> (t \notin stopped \/ At(t, "initialise") \/ chain = "ended" \/ Inverted)
=============================================================================
