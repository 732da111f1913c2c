---------------------------- MODULE ToolChainProofs ----------------------------
(***************************************************************************)
(* The types of the tool chain.  The one that is not a matter of the       *)
(* assignments is that of unread: the publisher has the lock of the map    *)
(* from WakeUp to FallAsleep, so no tool leaves the map while there are    *)
(* entries to come to (Idle); a program that is killed may leave some, and *)
(* makes no other step.                                                    *)
(***************************************************************************)
EXTENDS ToolChain, FiniteSetTheorems, SequenceTheorems, TLAPS

\* Who does not publish has no entries to come to.
Idle == publisher # "publishing" /\ chain # "ended" => unread = 0

\* The tools that are in the map.
Entered == monitoring_variables \subseteq Published

ChainInv == TypeOK /\ Idle /\ Entered

\* The tools, in a row.
LEMMA Tools ==
  /\ Len(Order) \in Nat /\ Len(Order) >= 1
  /\ \A S \in SUBSET Tool : IsFiniteSet(S) /\ Cardinality(S) \in Nat
  /\ MaxRequests \in Nat
  /\ Receivers \subseteq Threaded /\ Threaded \subseteq Published /\ Published \subseteq Tool /\ "monitoring" \in Published
<1>1. /\ Order \in Seq(Tool) /\ MaxRequests \in Nat
      /\ Receivers \subseteq Threaded /\ Threaded \subseteq Tool
      /\ "gracefulStop" \notin Threaded /\ "monitoring" \in Tool
  BY ToolChainAssumption
<1>2. Len(Order) \in Nat /\ DOMAIN Order = 1..Len(Order)
  BY <1>1
<1>3. Tool = {Order[j] : j \in 1..Len(Order)}
  BY <1>2 DEF Tool, ToSet
<1>4. Len(Order) # 0
  <2>1. PICK j \in 1..Len(Order) : Order[j] = "monitoring"
    BY <1>1, <1>3
  <2>2. QED  BY <1>2, <2>1
<1>5. IsFiniteSet(1..Len(Order))
  BY <1>2, FS_Interval
<1>6. IsFiniteSet(Tool)
  <2>1. Order \in Surjection(1..Len(Order), Tool)
    BY <1>1, <1>2, <1>3 DEF Surjection
  <2>2. QED  BY <1>5, <2>1, FS_Surjection
<1>7. ASSUME NEW S \in SUBSET Tool PROVE IsFiniteSet(S) /\ Cardinality(S) \in Nat
  <2>1. IsFiniteSet(S)
    BY <1>6, FS_Subset
  <2>2. QED  BY <2>1, FS_CardinalityType
<1>8. QED  BY <1>1, <1>2, <1>4, <1>7 DEF Published

\* From one tool to the next, or to the next round.
LEMMA NextToolTyped ==
  ASSUME TypeOK, chain # "ended", NextTool
  PROVE  /\ k' \in 1..Len(Order) /\ chain' \in {"initialise", "execute", "finalise", "ended"}
         /\ task' \in {"initialise", "check", "reset", "finalise", "erase", "ended"}
<1>1. k \in 1..Len(Order) /\ chain \in {"initialise", "execute", "finalise"} /\ Len(Order) \in Nat
  BY Tools DEF TypeOK
<1>2. CASE k < Len(Order) /\ k' = k + 1 /\ chain' = chain
           /\ task' = IF chain = "execute" THEN "check" ELSE chain
  BY <1>1, <1>2
<1>3. CASE /\ k = Len(Order) /\ k' = 1
           /\ chain' = CASE chain = "initialise" -> "execute"
                         [] chain = "execute"    -> IF stop THEN "finalise" ELSE "execute"
                         [] OTHER                -> "ended"
           /\ task' = IF chain' = "execute" THEN "check" ELSE chain'
  <2>1. chain' \in {"execute", "finalise", "ended"}
    BY <1>1, <1>3
  <2>2. QED  BY <1>1, <1>3, <2>1
<1>4. QED  BY <1>2, <1>3 DEF NextTool

\* A step that leaves the publisher and the map to themselves.
LEMMA StatsKept ==
  ASSUME ChainInv, UNCHANGED stats,
         k' \in 1..Len(Order), chain' \in {"initialise", "execute", "finalise", "ended"},
         task' \in {"initialise", "check", "reset", "finalise", "erase", "ended"},
         stopped' \subseteq Threaded,
         {gotStopSignal', stop', lost', quitfile', over'} \subseteq BOOLEAN,
         requests' \in 0..MaxRequests,
         chain' # "ended" => chain # "ended"
  PROVE  ChainInv'
BY DEF ChainInv, TypeOK, Idle, Entered, stats

\* A tool enters the map, or leaves it, when the publisher does not have it.
LEMMA MapChanged ==
  ASSUME ChainInv, chain # "ended", unread' = unread,
         \/ monitoring_variables' = monitoring_variables
         \/ publisher # "publishing" /\ monitoring_variables' \subseteq Published,
         publisher' = publisher \/ (publisher # "publishing" /\ publisher' \in {"none", "asleep"}),
         k' \in 1..Len(Order), chain' \in {"initialise", "execute", "finalise", "ended"},
         task' \in {"initialise", "check", "reset", "finalise", "erase", "ended"},
         stopped' \subseteq Threaded, UNCHANGED <<ctrl, files, requests>>
  PROVE  ChainInv'
<1>1. /\ publisher' \in {"none", "asleep", "publishing"} /\ Entered'
      /\ monitoring_variables' \subseteq Tool
  BY Tools DEF ChainInv, TypeOK, Entered
<1>2. unread' \in 0..Cardinality(monitoring_variables')
  <2>1. CASE monitoring_variables' = monitoring_variables
    BY <2>1 DEF ChainInv, TypeOK
  <2>2. CASE publisher # "publishing"
    <3>1. unread' = 0
      BY <2>2 DEF ChainInv, Idle
    <3>2. Cardinality(monitoring_variables') \in Nat
      BY <1>1, Tools
    <3>3. QED  BY <3>1, <3>2
  <2>3. QED  BY <2>1, <2>2
<1>3. Idle'
  BY DEF ChainInv, Idle
<1>4. TypeOK'
  BY <1>1, <1>2 DEF ChainInv, TypeOK, ctrl, files
<1>5. QED  BY <1>1, <1>3, <1>4 DEF ChainInv

LEMMA ChainInitially == Init => ChainInv
<1> SUFFICES ASSUME Init PROVE ChainInv
  OBVIOUS
<1>1. Cardinality({}) \in Nat
  BY Tools
<1>2. 0 \in 0..Cardinality({}) /\ 1 \in 1..Len(Order) /\ 0 \in 0..MaxRequests
  BY <1>1, Tools
<1>3. QED  BY <1>2 DEF Init, ChainInv, TypeOK, Idle, Entered

LEMMA MainKeeps == ASSUME ChainInv, MainStep PROVE ChainInv'
<1>1. /\ TypeOK /\ k \in 1..Len(Order)
      /\ chain \in {"initialise", "execute", "finalise", "ended"}
      /\ stopped \subseteq Threaded /\ monitoring_variables \subseteq Published
      /\ {gotStopSignal, stop, lost, quitfile, over} \subseteq BOOLEAN
      /\ requests \in 0..MaxRequests
  BY DEF ChainInv, TypeOK, Entered
<1>2. ASSUME NEW t \in Tool, Initialise(t) PROVE ChainInv'
  <2>1. /\ chain # "ended" /\ NextTool /\ stopped' \subseteq Threaded
        /\ monitoring_variables' = monitoring_variables \cup ({t} \cap Published)
        /\ t \in Published => publisher # "publishing"
        /\ publisher' = IF t = "monitoring" THEN "asleep" ELSE publisher
        /\ unread' = unread /\ UNCHANGED <<ctrl, files, requests>>
    BY <1>1, <1>2 DEF Initialise, At, MapIsFree
  <2>2. CASE t \in Published
    BY <1>1, <2>1, <2>2, NextToolTyped, MapChanged, Tools
  <2>3. CASE t \notin Published
    <3>1. monitoring_variables' = monitoring_variables /\ publisher' = publisher
      BY <2>1, <2>3, Tools
    <3>2. QED  BY <1>1, <2>1, <3>1, NextToolTyped, MapChanged
  <2>4. QED  BY <2>2, <2>3
<1>3. ASSUME NEW t \in Tool, Restart(t) PROVE ChainInv'
  <2>1. /\ task' = "finalise" /\ UNCHANGED <<chain, k>>
        /\ UNCHANGED <<stats, stopped, ctrl, files, requests>>
    BY <1>3 DEF Restart, Here
  <2>2. QED  BY <1>1, <2>1, StatsKept DEF ctrl, files
<1>4. ASSUME NEW t \in Tool, Execute(t) PROVE ChainInv'
  <2>1. chain # "ended" /\ NextTool /\ UNCHANGED <<stats, stopped, ctrl, files, requests>>
    BY <1>4 DEF Execute, At
  <2>2. QED  BY <1>1, <2>1, NextToolTyped, StatsKept DEF ctrl, files
<1>5. ASSUME NEW t \in Tool, Join(t) PROVE ChainInv'
  <2>1. /\ chain # "ended" /\ task' = "erase" /\ UNCHANGED <<chain, k>>
        /\ UNCHANGED <<monitoring_variables, unread, stopped, ctrl, files, requests>>
        /\ publisher' = publisher \/ (publisher # "publishing" /\ publisher' = "none")
    BY <1>5 DEF Join, At, Here
  <2>2. QED  BY <1>1, <2>1, MapChanged
<1>6. ASSUME Left, chain # "ended"
      PROVE  /\ k' \in 1..Len(Order) /\ chain' \in {"initialise", "execute", "finalise", "ended"}
             /\ task' \in {"initialise", "check", "reset", "finalise", "erase", "ended"}
  <2>1. CASE chain = "execute"
    BY <1>1, <1>6, <2>1 DEF Left, Here
  <2>2. CASE chain # "execute"
    BY <1>1, <1>6, <2>2, NextToolTyped DEF Left
  <2>3. QED  BY <2>1, <2>2
<1>7. ASSUME NEW t \in Tool, Erase(t) PROVE ChainInv'
  <2>1. /\ chain # "ended" /\ Left
        /\ t \in Published => publisher # "publishing"
        /\ monitoring_variables' = monitoring_variables \ {t}
        /\ UNCHANGED <<publisher, unread, stopped, ctrl, files, requests>>
    BY <1>7 DEF Erase, At, MapIsFree
  <2>2. t \in Published \/ monitoring_variables' = monitoring_variables
    BY <1>1, <2>1
  <2>3. QED  BY <1>1, <1>6, <2>1, <2>2, MapChanged
<1>8. CASE SendCommand
  <2>1. /\ task' = "reset" /\ UNCHANGED <<chain, k>>
        /\ UNCHANGED <<stats, stopped, gotStopSignal, files, requests>>
        /\ stop' \in {TRUE, stop} /\ lost' \in BOOLEAN
    BY <1>8 DEF SendCommand, Here
  <2>2. QED  BY <1>1, <2>1, StatsKept DEF files
<1>9. CASE ResetSignal
  <2>1. /\ chain # "ended" /\ NextTool /\ gotStopSignal' = FALSE
        /\ UNCHANGED <<stats, stopped, stop, lost, files, requests>>
    BY <1>9 DEF ResetSignal, At
  <2>2. QED  BY <1>1, <2>1, NextToolTyped, StatsKept DEF files
<1>10. ASSUME NEW t \in Tool, CloseFails(t) PROVE ChainInv'
  <2>1. chain # "ended" /\ Left /\ UNCHANGED <<stats, stopped, ctrl, files, requests>>
    BY <1>10 DEF CloseFails, At
  <2>2. QED  BY <1>1, <1>6, <2>1, StatsKept DEF ctrl, files
<1>11. ASSUME NEW t \in Tool, InitialiseFails(t) PROVE ChainInv'
  <2>1. /\ chain # "ended" /\ NextTool /\ t \in Threaded
        /\ stopped' = stopped \cup {t}
        /\ \/ publisher # "publishing" /\ monitoring_variables' = monitoring_variables \cup {t}
           \/ UNCHANGED monitoring_variables
        /\ UNCHANGED <<publisher, unread, ctrl, files, requests>>
    BY <1>11 DEF InitialiseFails, At, MapIsFree
  <2>2. /\ stopped' \subseteq Threaded
        /\ \/ publisher # "publishing" /\ monitoring_variables' \subseteq Published
           \/ monitoring_variables' = monitoring_variables
    BY <1>1, <2>1, Tools
  <2>3. QED  BY <1>1, <2>1, <2>2, NextToolTyped, MapChanged
<1>12. QED
  BY <1>2, <1>3, <1>4, <1>5, <1>7, <1>8, <1>9, <1>10, <1>11 DEF MainStep

\* The other threads, the requests and the script.
LEMMA OthersKeep ==
  ASSUME ChainInv,
         \/ PublisherStep \/ (\E t \in Tool : ReceiverStops(t))
         \/ Signal \/ StopAndQuit \/ ScriptLoops \/ ScriptEnds
  PROVE  ChainInv'
<1>1. /\ TypeOK /\ Idle /\ Entered /\ k \in 1..Len(Order) /\ unread \in Nat
      /\ chain \in {"initialise", "execute", "finalise", "ended"}
      /\ stopped \subseteq Threaded /\ monitoring_variables \subseteq Published
      /\ {gotStopSignal, stop, lost, quitfile, over} \subseteq BOOLEAN
      /\ requests \in 0..MaxRequests
      /\ task \in {"initialise", "check", "reset", "finalise", "erase", "ended"}
      /\ publisher \in {"none", "asleep", "publishing"}
      /\ unread \in 0..Cardinality(monitoring_variables)
      /\ monitoring_variables \in SUBSET Tool
      /\ Cardinality(monitoring_variables) \in Nat
  BY Tools DEF ChainInv, TypeOK, Entered
<1>2. ASSUME publisher' \in {"none", "asleep", "publishing"},
             unread' \in 0..Cardinality(monitoring_variables),
             publisher' # "publishing" => unread' = 0,
             UNCHANGED <<main, monitoring_variables, stopped, ctrl, files, requests>>
      PROVE  ChainInv'
  BY <1>1, <1>2 DEF ChainInv, TypeOK, Idle, Entered, main, ctrl, files
<1>3. CASE WakeUp
  BY <1>1, <1>2, <1>3 DEF WakeUp
<1>4. CASE PushStatistics
  <2>1. unread > 0 /\ unread' = unread - 1 /\ publisher' = publisher /\ publisher = "publishing"
        /\ UNCHANGED <<main, monitoring_variables, stopped, ctrl, files, requests>>
    BY <1>4 DEF PushStatistics
  <2>2. unread' \in 0..Cardinality(monitoring_variables)
    BY <1>1, <2>1
  <2>3. QED  BY <1>2, <2>1, <2>2
<1>5. CASE FallAsleep
  BY <1>1, <1>2, <1>5 DEF FallAsleep
<1>6. ASSUME NEW t \in Tool, ReceiverStops(t) PROVE ChainInv'
  <2>1. stopped' \subseteq Threaded /\ UNCHANGED <<main, stats, ctrl, files, requests>>
    BY <1>1, <1>6, Tools DEF ReceiverStops
  <2>2. QED  BY <1>1, <2>1, StatsKept DEF main, ctrl, files
<1>7. ASSUME Request PROVE requests' \in 0..MaxRequests /\ chain # "ended"
  BY <1>1, <1>7, Tools DEF Request
<1>8. CASE Signal
  <2>1. /\ requests' \in 0..MaxRequests /\ chain # "ended"
        /\ UNCHANGED <<k, task, monitoring_variables, unread, stopped, stop, lost, files>>
    BY <1>7, <1>8 DEF Signal
  <2>2. CASE gotStopSignal' = TRUE /\ UNCHANGED <<chain, publisher>>
    BY <1>1, <2>1, <2>2 DEF ChainInv, TypeOK, Idle, Entered, files
  <2>3. CASE chain' = "ended" /\ publisher' = "none" /\ UNCHANGED gotStopSignal
    BY <1>1, <2>1, <2>3 DEF ChainInv, TypeOK, Idle, Entered, files
  <2>4. QED  BY <1>8, <2>2, <2>3 DEF Signal
<1>9. CASE StopAndQuit
  <2>1. /\ requests' \in 0..MaxRequests /\ quitfile' = TRUE /\ gotStopSignal' = TRUE
        /\ UNCHANGED <<main, stats, stopped, stop, lost, over>>
    BY <1>7, <1>9 DEF StopAndQuit
  <2>2. QED  BY <1>1, <2>1, StatsKept DEF main
<1>10. CASE ScriptLoops
  <2>1. /\ chain' = "initialise" /\ k' = 1 /\ task' = "initialise"
        /\ monitoring_variables' = {} /\ publisher' = "none" /\ unread' = 0 /\ stopped' = {}
        /\ gotStopSignal' = FALSE /\ stop' = FALSE /\ lost' = FALSE /\ UNCHANGED <<files, requests>>
    BY <1>10 DEF ScriptLoops
  <2>2. 0 \in 0..Cardinality({}) /\ 1 \in 1..Len(Order)
    <3>1. Cardinality({}) \in Nat
      BY Tools
    <3>2. QED  BY <3>1, Tools
  <2>3. QED  BY <1>1, <2>1, <2>2 DEF ChainInv, TypeOK, Idle, Entered, files
<1>11. CASE ScriptEnds
  <2>1. /\ quitfile' = FALSE /\ over' = TRUE /\ UNCHANGED <<main, stats, stopped, ctrl, requests>>
    BY <1>11 DEF ScriptEnds
  <2>2. QED  BY <1>1, <2>1, StatsKept DEF main, ctrl
<1>12. QED
  BY <1>3, <1>4, <1>5, <1>6, <1>8, <1>9, <1>10, <1>11 DEF PublisherStep

LEMMA ChainInductive == ChainInv /\ [Next]_vars => ChainInv'
<1>1. ASSUME ChainInv, UNCHANGED vars PROVE ChainInv'
  BY <1>1 DEF vars, main, stats, ctrl, files, ChainInv, TypeOK, Idle, Entered
<1>2. QED  BY <1>1, MainKeeps, OthersKeep DEF Next

\* What the tools, the publisher and the script keep has its type; and for any number
\* of tools, restarts, failures and requests, no tool is taken out of the map of
\* statistics while the publisher is at it: it never has more entries ahead of it than
\* there are.
THEOREM ChainTypeCorrect == FairSpec => []TypeOK
<1>1. ChainInv => TypeOK
  BY DEF ChainInv
<1>2. QED  BY <1>1, ChainInitially, ChainInductive, PTL DEF FairSpec, Spec
=============================================================================
