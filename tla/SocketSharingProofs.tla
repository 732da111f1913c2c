-------------------------- MODULE SocketSharingProofs --------------------------
(***************************************************************************)
(* The sockets are safe, for any number of sockets, clients, calls and     *)
(* restarts.                                                               *)
(*                                                                         *)
(* That a socket is used by one thread at a time follows from its mutex    *)
(* once it is known that a requester keeps it while it calls the socket    *)
(* (HoldersHold).  That no deleted socket is touched needs the locks of    *)
(* the map: who walks over the sockets has the shared one, and walks over  *)
(* what is in the map (Readers); the thread of a tool that is being        *)
(* restarted is over (ReceiversThere, Restarting), and its socket is out   *)
(* of the map when it is deleted.                                          *)
(***************************************************************************)
EXTENDS SocketSharing, TLAPS

\* A requester that calls a socket, or is about to, has its mutex.
HoldersHold ==
  \A r \in Requester :
    at[r] = "granted" \/ (at[r] \in {"locked", "both"} /\ op[r] # "clear")
      => socket_mtx[cur[r]] = r

\* Whoever goes through the map has its lock, and goes through what is in it.
Readers ==
  /\ \A r \in Requester : at[r] # "idle" =>
       /\ r \in readers
       /\ todo[r] \subseteq managed
       /\ at[r] # "next" => cur[r] \in managed
  /\ main = "list" => "main" \in readers
  /\ main # "list" => listing = {}
  /\ listing \subseteq managed

\* The socket of a receiver that is in its loop, or will enter it again, is there.
ReceiversThere ==
  /\ running \subseteq alive
  /\ \A s \in Socket : /\ recv[s] # "top" => s \in alive
                       /\ socket_mtx[s] = "receiver" => recv[s] # "top"

\* A tool that is being restarted has no thread, and has left the map when its socket
\* is deleted.
Restarting ==
  /\ main \in {"erase", "delete", "initialise"} =>
       restarting \notin running /\ recv[restarting] = "top"
  /\ main \in {"delete", "initialise"} => restarting \notin managed

Inv == TypeOK /\ HoldersHold /\ Readers /\ ReceiversThere /\ Restarting /\ KnownAreLinked

-----------------------------------------------------------------------------
\* The program starts with every socket there, and with nobody at one.
LEMMA Initially == Init => Inv
  <1> SUFFICES ASSUME Init PROVE Inv
    OBVIOUS
  <1>1. TypeOK
    <2>1. calls \in 0..MaxCalls /\ stops \in 0..MaxStops
      BY SocketAssumption DEF Init
    <2>2. /\ managed \subseteq alive /\ alive \subseteq Socket /\ running \subseteq Socket
          /\ listing \subseteq Socket /\ restarting \in Socket
          /\ advertised \subseteq Client
      BY SocketAssumption DEF Init
    <2>3. /\ connections \in [Socket -> SUBSET Client] /\ linked \in [Socket -> SUBSET Client]
          /\ todo \in [Requester -> SUBSET Socket] /\ cur \in [Requester -> Socket]
      BY DEF Init
    <2> QED
      BY <2>1, <2>2, <2>3 DEF Init, TypeOK, Thread, Stage
  <1>2. HoldersHold /\ Readers
    BY DEF Init, HoldersHold, Readers, Requester
  <1>3. ReceiversThere /\ Restarting /\ KnownAreLinked
    BY DEF Init, ReceiversThere, Restarting, KnownAreLinked
  <1> QED
    BY <1>1, <1>2, <1>3 DEF Inv

\* Whoever begins to go through the map takes its lock.
LEMMA RequesterBegins ==
  ASSUME Inv, BeginUpdate \/ BeginClear \/ BeginDisconnect
  PROVE  Inv'
  <1> USE SocketAssumption DEF Inv, TypeOK, Requester, Thread, Stage, vars, locks, conns, reqs, recvs, mains, lists
  <1>1. CASE BeginUpdate
    <2>1. TypeOK'
      BY <1>1 DEF BeginUpdate, Begin
    <2>2. HoldersHold' /\ Readers'
      BY <1>1 DEF BeginUpdate, Begin, HoldersHold, Readers
    <2>3. ReceiversThere' /\ Restarting' /\ KnownAreLinked'
      BY <1>1 DEF BeginUpdate, Begin, ReceiversThere, Restarting, KnownAreLinked
    <2> QED BY <2>1, <2>2, <2>3
  <1>2. CASE BeginClear
    <2>1. TypeOK'
      BY <1>2 DEF BeginClear, Begin
    <2>2. HoldersHold' /\ Readers'
      BY <1>2 DEF BeginClear, Begin, HoldersHold, Readers
    <2>3. ReceiversThere' /\ Restarting' /\ KnownAreLinked'
      BY <1>2 DEF BeginClear, Begin, ReceiversThere, Restarting, KnownAreLinked
    <2> QED BY <2>1, <2>2, <2>3
  <1>3. CASE BeginDisconnect
    <2>1. TypeOK'
      BY <1>3 DEF BeginDisconnect, Begin
    <2>2. HoldersHold' /\ Readers'
      BY <1>3 DEF BeginDisconnect, Begin, HoldersHold, Readers
    <2>3. ReceiversThere' /\ Restarting' /\ KnownAreLinked'
      BY <1>3 DEF BeginDisconnect, Begin, ReceiversThere, Restarting, KnownAreLinked
    <2> QED BY <2>1, <2>2, <2>3
  <1> QED
    BY <1>1, <1>2, <1>3

\* A requester takes a mutex only when it is free, and lets go of it when it is done
\* with the socket.
LEMMA RequesterSteps ==
  ASSUME Inv, NEW r \in Requester, RequesterStep(r)
  PROVE  Inv'
  <1> USE SocketAssumption DEF Inv, TypeOK, Requester, Thread, Stage, vars, locks, conns, reqs, recvs, mains, lists
  <1>1. CASE \E s \in Socket : VisitConnections(r, s)
    <2> PICK s \in Socket : VisitConnections(r, s)
      BY <1>1
    <2>1. TypeOK'
      BY DEF VisitConnections, Visit
    <2>2. HoldersHold' /\ Readers'
      BY DEF VisitConnections, Visit, HoldersHold, Readers
    <2>3. ReceiversThere' /\ Restarting' /\ KnownAreLinked'
      BY DEF VisitConnections, Visit, ReceiversThere, Restarting, KnownAreLinked
    <2> QED BY <2>1, <2>2, <2>3
  <1>2. CASE \E s \in Socket : TryLock(r, s)
    <2> PICK s \in Socket : TryLock(r, s)
      BY <1>2
    <2>1. TypeOK'
      BY DEF TryLock, Visit
    <2>2. HoldersHold' /\ Readers'
      BY DEF TryLock, Visit, HoldersHold, Readers
    <2>3. ReceiversThere' /\ Restarting' /\ KnownAreLinked'
      BY DEF TryLock, Visit, ReceiversThere, Restarting, KnownAreLinked
    <2> QED BY <2>1, <2>2, <2>3
  <1>3. CASE Ask(r)
    <2>1. TypeOK'
      BY <1>3 DEF Ask, Here
    <2>2. HoldersHold' /\ Readers'
      BY <1>3 DEF Ask, Here, HoldersHold, Readers
    <2>3. ReceiversThere' /\ Restarting' /\ KnownAreLinked'
      BY <1>3 DEF Ask, Here, ReceiversThere, Restarting, KnownAreLinked
    <2> QED BY <2>1, <2>2, <2>3
  <1>4. CASE Lock(r)
    <2>1. TypeOK'
      BY <1>4 DEF Lock, Here
    <2>2. HoldersHold' /\ Readers'
      BY <1>4 DEF Lock, Here, HoldersHold, Readers
    <2>3. ReceiversThere' /\ Restarting' /\ KnownAreLinked'
      BY <1>4 DEF Lock, Here, ReceiversThere, Restarting, KnownAreLinked
    <2> QED BY <2>1, <2>2, <2>3
  <1>5. CASE Unask(r)
    <2>1. TypeOK'
      BY <1>5 DEF Unask, Here
    <2>2. HoldersHold' /\ Readers'
      BY <1>5 DEF Unask, Here, HoldersHold, Readers
    <2>3. ReceiversThere' /\ Restarting' /\ KnownAreLinked'
      BY <1>5 DEF Unask, Here, ReceiversThere, Restarting, KnownAreLinked
    <2> QED BY <2>1, <2>2, <2>3
  <1>6. CASE LockConnections(r)
    <2>1. TypeOK'
      BY <1>6 DEF LockConnections, KeepSocket
    <2>2. HoldersHold' /\ Readers'
      BY <1>6 DEF LockConnections, KeepSocket, HoldersHold, Readers
    <2>3. ReceiversThere' /\ Restarting' /\ KnownAreLinked'
      BY <1>6 DEF LockConnections, KeepSocket, ReceiversThere, Restarting, KnownAreLinked
    <2> QED BY <2>1, <2>2, <2>3
  <1>7. CASE Update(r)
    <2>1. TypeOK'
      BY <1>7 DEF Update, Doing, NewAt, Released
    <2>2. HoldersHold' /\ Readers'
      BY <1>7 DEF Update, Doing, NewAt, Released, HoldersHold, Readers
    <2>3. ReceiversThere' /\ Restarting' /\ KnownAreLinked'
      BY <1>7 DEF Update, Doing, NewAt, Released, ReceiversThere, Restarting, KnownAreLinked
    <2> QED BY <2>1, <2>2, <2>3
  <1>8. CASE Tell(r)
    <2>1. TypeOK'
      BY <1>8 DEF Tell, Released
    <2>2. HoldersHold' /\ Readers'
      BY <1>8 DEF Tell, Released, HoldersHold, Readers
    <2>3. ReceiversThere' /\ Restarting' /\ KnownAreLinked'
      BY <1>8 DEF Tell, Released, ReceiversThere, Restarting, KnownAreLinked
    <2> QED BY <2>1, <2>2, <2>3
  <1>9. CASE Disconnect(r)
    <2>1. TypeOK'
      BY <1>9 DEF Disconnect, Doing, ForgetAll, Released
    <2>2. HoldersHold' /\ Readers'
      BY <1>9 DEF Disconnect, Doing, ForgetAll, Released, HoldersHold, Readers
    <2>3. ReceiversThere' /\ Restarting' /\ KnownAreLinked'
      BY <1>9 DEF Disconnect, Doing, ForgetAll, Released, ReceiversThere, Restarting, KnownAreLinked
    <2> QED BY <2>1, <2>2, <2>3
  <1>10. CASE Clear(r)
    <2>1. TypeOK'
      BY <1>10 DEF Clear, Doing, Released
    <2>2. HoldersHold' /\ Readers'
      BY <1>10 DEF Clear, Doing, Released, HoldersHold, Readers
    <2>3. ReceiversThere' /\ Restarting' /\ KnownAreLinked'
      BY <1>10 DEF Clear, Doing, Released, ReceiversThere, Restarting, KnownAreLinked
    <2> QED BY <2>1, <2>2, <2>3
  <1>11. CASE EndUpdate(r)
    <2>1. TypeOK'
      BY <1>11 DEF EndUpdate, End
    <2>2. HoldersHold' /\ Readers'
      BY <1>11 DEF EndUpdate, End, HoldersHold, Readers
    <2>3. ReceiversThere' /\ Restarting' /\ KnownAreLinked'
      BY <1>11 DEF EndUpdate, End, ReceiversThere, Restarting, KnownAreLinked
    <2> QED BY <2>1, <2>2, <2>3
  <1>12. CASE EndClear(r)
    <2>1. TypeOK'
      BY <1>12 DEF EndClear, End
    <2>2. HoldersHold' /\ Readers'
      BY <1>12 DEF EndClear, End, HoldersHold, Readers
    <2>3. ReceiversThere' /\ Restarting' /\ KnownAreLinked'
      BY <1>12 DEF EndClear, End, ReceiversThere, Restarting, KnownAreLinked
    <2> QED BY <2>1, <2>2, <2>3
  <1>13. CASE EndDisconnect(r)
    <2>1. TypeOK'
      BY <1>13 DEF EndDisconnect, End
    <2>2. HoldersHold' /\ Readers'
      BY <1>13 DEF EndDisconnect, End, HoldersHold, Readers
    <2>3. ReceiversThere' /\ Restarting' /\ KnownAreLinked'
      BY <1>13 DEF EndDisconnect, End, ReceiversThere, Restarting, KnownAreLinked
    <2> QED BY <2>1, <2>2, <2>3
  <1> QED
    BY <1>1, <1>2, <1>3, <1>4, <1>5, <1>6, <1>7, <1>8, <1>9, <1>10, <1>11, <1>12, <1>13 DEF RequesterStep

\* A receiver never takes a mutex from a requester.
LEMMA ReceiverSteps ==
  ASSUME Inv, NEW s \in Socket, ReceiverStep(s) \/ ReceiverStops(s)
  PROVE  Inv'
  <1> USE SocketAssumption DEF Inv, TypeOK, Requester, Thread, Stage, vars, locks, conns, reqs, recvs, mains, lists
  <1>1. CASE GiveWay(s)
    <2>1. TypeOK'
      BY <1>1 DEF GiveWay, ReceiverOnly, NotRequested
    <2>2. HoldersHold' /\ Readers'
      BY <1>1 DEF GiveWay, ReceiverOnly, NotRequested, HoldersHold, Readers
    <2>3. ReceiversThere' /\ Restarting' /\ KnownAreLinked'
      BY <1>1 DEF GiveWay, ReceiverOnly, NotRequested, ReceiversThere, Restarting, KnownAreLinked
    <2> QED BY <2>1, <2>2, <2>3
  <1>2. CASE ReceiverLock(s)
    <2>1. TypeOK'
      BY <1>2 DEF ReceiverLock, ReceiverOnly
    <2>2. HoldersHold' /\ Readers'
      BY <1>2 DEF ReceiverLock, ReceiverOnly, HoldersHold, Readers
    <2>3. ReceiversThere' /\ Restarting' /\ KnownAreLinked'
      BY <1>2 DEF ReceiverLock, ReceiverOnly, ReceiversThere, Restarting, KnownAreLinked
    <2> QED BY <2>1, <2>2, <2>3
  <1>3. CASE ReceiverUnlock(s)
    <2>1. TypeOK'
      BY <1>3 DEF ReceiverUnlock, ReceiverOnly, Released, After
    <2>2. HoldersHold' /\ Readers'
      BY <1>3 DEF ReceiverUnlock, ReceiverOnly, Released, After, HoldersHold, Readers
    <2>3. ReceiversThere' /\ Restarting' /\ KnownAreLinked'
      BY <1>3 DEF ReceiverUnlock, ReceiverOnly, Released, After, ReceiversThere, Restarting, KnownAreLinked
    <2> QED BY <2>1, <2>2, <2>3
  <1>4. CASE ReceiverStops(s)
    <2>1. TypeOK'
      BY <1>4 DEF ReceiverStops, ReceiverOnly, Released, After
    <2>2. HoldersHold' /\ Readers'
      BY <1>4 DEF ReceiverStops, ReceiverOnly, Released, After, HoldersHold, Readers
    <2>3. ReceiversThere' /\ Restarting' /\ KnownAreLinked'
      BY <1>4 DEF ReceiverStops, ReceiverOnly, Released, After, ReceiversThere, Restarting, KnownAreLinked
    <2> QED BY <2>1, <2>2, <2>3
  <1> QED
    BY <1>1, <1>2, <1>3, <1>4 DEF ReceiverStep

\* The main thread takes a socket out of the map only when nobody walks over it, and
\* deletes it only after.
LEMMA MainSteps ==
  ASSUME Inv, MainStep
  PROVE  Inv'
  <1> USE SocketAssumption DEF Inv, TypeOK, Requester, Thread, Stage, vars, locks, conns, reqs, recvs, mains, lists
  <1>1. CASE \E s \in Socket : Restart(s)
    <2> PICK s \in Socket : Restart(s)
      BY <1>1
    <2>1. TypeOK'
      BY DEF Restart
    <2>2. HoldersHold' /\ Readers'
      BY DEF Restart, HoldersHold, Readers
    <2>3. ReceiversThere' /\ Restarting' /\ KnownAreLinked'
      BY DEF Restart, ReceiversThere, Restarting, KnownAreLinked
    <2> QED BY <2>1, <2>2, <2>3
  <1>2. CASE \E s \in Socket : List(s)
    <2> PICK s \in Socket : List(s)
      BY <1>2
    <2>1. TypeOK'
      BY DEF List
    <2>2. HoldersHold' /\ Readers'
      BY DEF List, HoldersHold, Readers
    <2>3. ReceiversThere' /\ Restarting' /\ KnownAreLinked'
      BY DEF List, ReceiversThere, Restarting, KnownAreLinked
    <2> QED BY <2>1, <2>2, <2>3
  <1>3. CASE Erase
    <2>1. TypeOK'
      BY <1>3 DEF Erase, Exclusive, TakenOut
    <2>2. HoldersHold' /\ Readers'
      BY <1>3 DEF Erase, Exclusive, TakenOut, HoldersHold, Readers
    <2>3. ReceiversThere' /\ Restarting' /\ KnownAreLinked'
      BY <1>3 DEF Erase, Exclusive, TakenOut, ReceiversThere, Restarting, KnownAreLinked
    <2> QED BY <2>1, <2>2, <2>3
  <1>4. CASE Delete
    <2>1. TypeOK'
      BY <1>4 DEF Delete, Restarting
    <2>2. HoldersHold' /\ Readers'
      BY <1>4 DEF Delete, HoldersHold, Readers
    <2>3. ReceiversThere' /\ Restarting' /\ KnownAreLinked'
      BY <1>4 DEF Delete, ReceiversThere, Restarting, KnownAreLinked
    <2> QED BY <2>1, <2>2, <2>3
  <1>5. CASE Initialise
    <2>1. TypeOK'
      BY <1>5 DEF Initialise, Exclusive
    <2>2. HoldersHold' /\ Readers'
      BY <1>5 DEF Initialise, Exclusive, HoldersHold, Readers
    <2>3. ReceiversThere' /\ Restarting' /\ KnownAreLinked'
      BY <1>5 DEF Initialise, Exclusive, ReceiversThere, Restarting, KnownAreLinked
    <2> QED BY <2>1, <2>2, <2>3
  <1>6. CASE ListBegin
    <2>1. TypeOK'
      BY <1>6 DEF ListBegin
    <2>2. HoldersHold' /\ Readers'
      BY <1>6 DEF ListBegin, HoldersHold, Readers
    <2>3. ReceiversThere' /\ Restarting' /\ KnownAreLinked'
      BY <1>6 DEF ListBegin, ReceiversThere, Restarting, KnownAreLinked
    <2> QED BY <2>1, <2>2, <2>3
  <1>7. CASE ListEnd
    <2>1. TypeOK'
      BY <1>7 DEF ListEnd, FlagAfterList
    <2>2. HoldersHold' /\ Readers'
      BY <1>7 DEF ListEnd, FlagAfterList, HoldersHold, Readers
    <2>3. ReceiversThere' /\ Restarting' /\ KnownAreLinked'
      BY <1>7 DEF ListEnd, FlagAfterList, ReceiversThere, Restarting, KnownAreLinked
    <2> QED BY <2>1, <2>2, <2>3
  <1> QED
    BY <1>1, <1>2, <1>3, <1>4, <1>5, <1>6, <1>7 DEF MainStep

\* A client that turns up, and a step of nobody, change nothing of this.
LEMMA OtherSteps ==
  ASSUME Inv, (\E c \in Client : Advertise(c)) \/ UNCHANGED vars
  PROVE  Inv'
  <1> USE DEF Inv, TypeOK, vars, locks, conns, reqs, recvs, mains, lists
  <1>1. TypeOK'
    BY DEF Advertise
  <1>2. HoldersHold' /\ Readers'
    BY DEF Advertise, HoldersHold, Readers
  <1>3. ReceiversThere' /\ Restarting' /\ KnownAreLinked'
    BY DEF Advertise, ReceiversThere, Restarting, KnownAreLinked
  <1> QED
    BY <1>1, <1>2, <1>3

LEMMA Inductive == Spec => []Inv
  <1>1. Inv /\ [Next]_vars => Inv'
    BY RequesterBegins, RequesterSteps, ReceiverSteps, MainSteps, OtherSteps DEF Next
  <1> QED
    BY Initially, <1>1, PTL DEF Spec

-----------------------------------------------------------------------------
\* Whoever calls a socket has its mutex, so nobody else does; and what is in the map
\* is not deleted.
LEMMA Safe == Inv => SocketIsSafe
  BY DEF Inv, TypeOK, HoldersHold, Readers, ReceiversThere, KnownAreLinked, SocketIsSafe, UsedAlone, NotDeleted, Managing, Requester

\* The variables keep their types, and what is in the map is not deleted.
THEOREM SocketTypes == Spec => []TypeOK
  BY Inductive, PTL DEF Inv

\* A socket is used by one thread at a time, is not deleted under anyone who uses it
\* or is about to, and is connected to every client its map of connections has.
THEOREM SocketsAreSafe == Spec => []SocketIsSafe
  BY Inductive, Safe, PTL
=============================================================================
