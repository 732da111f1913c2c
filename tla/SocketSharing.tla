----------------------------- MODULE SocketSharing -----------------------------
(***************************************************************************)
(* The sockets of the query receivers, which are used by their receiver's  *)
(* thread, by the SocketManager's thread, which connects them to clients,  *)
(* and by the slow control thread, which runs SocketManager's callbacks.   *)
(*                                                                         *)
(* A ManagedSocket has a mutex for its socket and one for its connections. *)
(* Its receiver holds the first nearly all the time, polling; so whoever   *)
(* else wants it says so in socket_manager_request, and the receiver does  *)
(* not poll again while that is set.  The map of the sockets has a shared  *)
(* mutex: a tool that is restarted takes its socket out and deletes it.    *)
(*                                                                         *)
(* The main thread executes the tools in turn: it restarts a receiver that *)
(* stopped, and lists the clients when there are new ones.  It takes the   *)
(* exclusive lock of the map only for single steps, so only those holding  *)
(* the shared lock (readers) are kept.                                     *)
(*                                                                         *)
(* An operator named Bug... is what a plausible mistake would make of the  *)
(* definition after it; nothing uses it.                                   *)
(***************************************************************************)
EXTENDS Naturals, FiniteSets

CONSTANTS
  Socket,      \* the managed sockets, named by their tool
  Replying,    \* those replies are sent on: the ReadQueryReceiverReplySender's
  Client,      \* clients that may advertise themselves
  Early,       \* those that do before the program is started
  MaxCalls,    \* bounds the calls of slow control
  MaxStops     \* bounds the receivers that stop

ASSUME SocketAssumption ==
  /\ Replying \subseteq Socket /\ Early \subseteq Client
  /\ MaxCalls \in Nat /\ MaxStops \in Nat

\* The two threads that do for SocketManager what needs another tool's socket.
Requester == {"manager", "control"}
Thread == Requester \cup {"receiver", "nobody"}

VARIABLES
  managed,          \* the keys of managed_sockets
  alive,            \* the sockets that are not deleted
  readers,          \* threads with the shared lock of managed_sockets_mtx
  socket_mtx,       \* who holds the mutex of a socket
  connections_mtx,  \* who holds the mutex of its connections
  request,          \* its socket_manager_request
  connections,      \* the clients in its map of connections
  linked,           \* the clients the socket is in fact connected to
  at, op, cur, todo,   \* a requester: where it is, what it does, to which socket, which it has yet to visit
  recv,             \* where a receiver is in its loop
  running,          \* receivers whose thread has not stopped itself
  main, restarting, listing,  \* the main thread: where it is, on which sockets
  new_clients, clientsmap, clients,  \* the flag, the list, and slow control's "Clients"
  torn,             \* the list was emptied while it was being made
  whom,             \* clients that are to be disconnected
  advertised,       \* clients that advertise themselves
  calls, stops

locks == <<readers, socket_mtx, connections_mtx, request>>
conns == <<connections, linked>>
reqs  == <<at, op, cur, todo>>
recvs == <<recv, running, stops>>
mains == <<managed, alive, main, restarting, listing>>
lists == <<new_clients, clientsmap, clients, torn>>
vars  == <<locks, conns, reqs, recvs, mains, lists, whom, advertised, calls>>

Init ==
  /\ managed = Socket /\ alive = Socket
  /\ readers = {}
  /\ socket_mtx = [s \in Socket |-> "nobody"]
  /\ connections_mtx = [s \in Socket |-> "nobody"]
  /\ request = [s \in Socket |-> FALSE]
  /\ connections = [s \in Socket |-> {}] /\ linked = [s \in Socket |-> {}]
  /\ at = [r \in Requester |-> "idle"]
  /\ op = [r \in Requester |-> "none"]
  /\ cur \in [Requester -> Socket]
  /\ todo = [r \in Requester |-> {}]
  /\ recv = [s \in Socket |-> "top"] /\ running = Socket
  /\ main = "execute" /\ restarting \in Socket /\ listing = {}
  /\ new_clients = FALSE /\ clientsmap = {} /\ clients = {}
  /\ torn = FALSE
  /\ whom = {} /\ advertised = Early
  /\ calls = 0 /\ stops = 0

-----------------------------------------------------------------------------
(* A requester visits the sockets one by one.                              *)

Begin(r, o) ==
  /\ at[r] = "idle"
  /\ readers' = readers \cup {r}
  /\ op' = [op EXCEPT ![r] = o]
  /\ todo' = [todo EXCEPT ![r] = managed]
  /\ at' = [at EXCEPT ![r] = "next"]
  /\ UNCHANGED <<socket_mtx, connections_mtx, request, cur, conns, recvs, mains,
                 lists, advertised>>

BeginUpdate == Begin("manager", "update") /\ UNCHANGED <<whom, calls>>

BeginClear ==
  /\ calls < MaxCalls
  /\ Begin("control", "clear")
  /\ calls' = calls + 1
  /\ UNCHANGED whom

\* All the clients, or one.
BeginDisconnect ==
  /\ calls < MaxCalls
  /\ Begin("control", "disconnect")
  /\ whom' \in {Client} \cup {{c} : c \in Client}
  /\ calls' = calls + 1

Visit(r, s) ==
  /\ at[r] = "next"
  /\ s \in todo[r]
  /\ cur' = [cur EXCEPT ![r] = s]
  /\ todo' = [todo EXCEPT ![r] = @ \ {s}]
  /\ UNCHANGED <<readers, connections_mtx, request, conns, op, recvs, mains,
                 lists, whom, advertised, calls>>

\* ClearClients does without the socket's mutex.
VisitConnections(r, s) ==
  /\ Visit(r, s)
  /\ op[r] = "clear"
  /\ at' = [at EXCEPT ![r] = "locked"]
  /\ UNCHANGED socket_mtx

\* try_lock
TryLock(r, s) ==
  /\ Visit(r, s)
  /\ op[r] # "clear"
  /\ \/ /\ socket_mtx[s] = "nobody"
        /\ socket_mtx' = [socket_mtx EXCEPT ![s] = r]
        /\ at' = [at EXCEPT ![r] = "locked"]
     \/ /\ socket_mtx[s] # "nobody"
        /\ at' = [at EXCEPT ![r] = "ask"]
        /\ UNCHANGED socket_mtx

Here(r) == UNCHANGED <<readers, connections_mtx, op, cur, todo, conns, recvs,
                       mains, lists, whom, advertised, calls>>

Ask(r) ==
  /\ at[r] = "ask"
  /\ request' = [request EXCEPT ![cur[r]] = TRUE]
  /\ at' = [at EXCEPT ![r] = "wait"]
  /\ UNCHANGED socket_mtx
  /\ Here(r)

Lock(r) ==
  /\ at[r] = "wait"
  /\ socket_mtx[cur[r]] = "nobody"
  /\ socket_mtx' = [socket_mtx EXCEPT ![cur[r]] = r]
  /\ at' = [at EXCEPT ![r] = "granted"]
  /\ UNCHANGED request
  /\ Here(r)

Unask(r) ==
  /\ at[r] = "granted"
  /\ request' = [request EXCEPT ![cur[r]] = FALSE]
  /\ at' = [at EXCEPT ![r] = "locked"]
  /\ UNCHANGED socket_mtx
  /\ Here(r)

BugLetGo(r) == socket_mtx' = [socket_mtx EXCEPT ![cur[r]] = "nobody"]
KeepSocket(r) == UNCHANGED socket_mtx

LockConnections(r) ==
  /\ at[r] = "locked"
  /\ connections_mtx[cur[r]] = "nobody"
  /\ connections_mtx' = [connections_mtx EXCEPT ![cur[r]] = r]
  /\ at' = [at EXCEPT ![r] = "both"]
  /\ KeepSocket(r)
  /\ UNCHANGED <<readers, request, op, cur, todo, conns, recvs, mains, lists, whom,
                 advertised, calls>>

Doing(r, o) ==
  /\ at[r] = "both"
  /\ op[r] = o
  /\ UNCHANGED <<readers, request, op, cur, todo, recvs, mains, whom, advertised, calls>>

Released(mtx, s) == [mtx EXCEPT ![s] = "nobody"]

\* UpdateConnections connects to the clients that advertise themselves and are not
\* in the map.  That there are more than before is seen only later.
NewAt(s) == advertised \ connections[s]

Update(r) ==
  LET s == cur[r] IN
  /\ Doing(r, "update")
  /\ connections' = [connections EXCEPT ![s] = @ \cup NewAt(s)]
  /\ linked' = [linked EXCEPT ![s] = @ \cup NewAt(s)]
  /\ socket_mtx' = Released(socket_mtx, s)
  /\ \/ /\ NewAt(s) # {}
        /\ at' = [at EXCEPT ![r] = "tell"]
        /\ UNCHANGED connections_mtx
     \/ /\ NewAt(s) = {}
        /\ at' = [at EXCEPT ![r] = "next"]
        /\ connections_mtx' = Released(connections_mtx, s)
  /\ UNCHANGED lists

Tell(r) ==
  /\ at[r] = "tell"
  /\ new_clients' = TRUE
  /\ connections_mtx' = Released(connections_mtx, cur[r])
  /\ at' = [at EXCEPT ![r] = "next"]
  /\ UNCHANGED <<readers, socket_mtx, request, op, cur, todo, conns, recvs, mains,
                 clientsmap, clients, torn, whom, advertised, calls>>

\* Whoever is disconnected, the whole map is cleared.
BugForgetNobody(r) == UNCHANGED connections
ForgetAll(r) == connections' = [connections EXCEPT ![cur[r]] = {}]

Disconnect(r) ==
  LET s == cur[r] IN
  /\ Doing(r, "disconnect")
  /\ linked' = [linked EXCEPT ![s] = @ \ (whom \cap connections[s])]
  /\ ForgetAll(r)
  /\ socket_mtx' = Released(socket_mtx, s)
  /\ connections_mtx' = Released(connections_mtx, s)
  /\ at' = [at EXCEPT ![r] = "next"]
  /\ UNCHANGED lists

Clear(r) ==
  /\ Doing(r, "clear")
  /\ connections' = [connections EXCEPT ![cur[r]] = {}]
  /\ connections_mtx' = Released(connections_mtx, cur[r])
  /\ at' = [at EXCEPT ![r] = "next"]
  /\ UNCHANGED <<linked, socket_mtx, lists>>

End(r) ==
  /\ at[r] = "next"
  /\ todo[r] = {}
  /\ readers' = readers \ {r}
  /\ op' = [op EXCEPT ![r] = "none"]
  /\ whom' = IF op[r] = "disconnect" THEN {} ELSE whom
  /\ UNCHANGED <<socket_mtx, connections_mtx, request, cur, todo, conns, recvs,
                 mains, clients, advertised, calls>>

EndUpdate(r) ==
  /\ End(r)
  /\ op[r] = "update"
  /\ at' = [at EXCEPT ![r] = "idle"]
  /\ UNCHANGED <<new_clients, clientsmap, torn>>

\* The list is emptied, though the main thread may be making it.
EndClear(r) ==
  /\ End(r)
  /\ op[r] = "clear"
  /\ at' = [at EXCEPT ![r] = "idle"]
  /\ clientsmap' = {}
  /\ torn' = (torn \/ main = "list")
  /\ UNCHANGED new_clients

EndDisconnect(r) ==
  /\ End(r)
  /\ op[r] = "disconnect"
  /\ at' = [at EXCEPT ![r] = "idle"]
  /\ new_clients' = TRUE
  /\ UNCHANGED <<clientsmap, torn>>

\* The steps of a requester once it has begun.
RequesterStep(r) ==
  \/ \E s \in Socket : VisitConnections(r, s) \/ TryLock(r, s)
  \/ Ask(r) \/ Lock(r) \/ Unask(r) \/ LockConnections(r)
  \/ Update(r) \/ Tell(r)
  \/ Disconnect(r) \/ Clear(r)
  \/ EndUpdate(r) \/ EndClear(r) \/ EndDisconnect(r)

-----------------------------------------------------------------------------
(* A receiver's thread.                                                    *)

\* The uses it makes of the socket, each under the mutex, and what may follow each.
Stage == {"poll", "receive", "out_poll", "send"}
After(s, u) ==
  CASE u = "poll"     -> {"top", "receive"} \cup (IF s \in Replying THEN {"out_poll"} ELSE {})
    [] u = "receive"  -> {"top"} \cup (IF s \in Replying THEN {"out_poll"} ELSE {})
    [] u = "out_poll" -> {"top", "send"}
    [] OTHER          -> {"top"}

ReceiverOnly == UNCHANGED <<readers, connections_mtx, request, conns, reqs, mains,
                            lists, whom, advertised, calls>>

BugNoPriority(s) == TRUE
NotRequested(s) == ~request[s]

\* while(socket_manager_request) usleep(1);
GiveWay(s) ==
  /\ recv[s] = "top" /\ s \in running
  /\ NotRequested(s)
  /\ recv' = [recv EXCEPT ![s] = "poll"]
  /\ UNCHANGED <<socket_mtx, running, stops>>
  /\ ReceiverOnly

ReceiverLock(s) ==
  /\ recv[s] \in Stage
  /\ socket_mtx[s] = "nobody"
  /\ socket_mtx' = [socket_mtx EXCEPT ![s] = "receiver"]
  /\ UNCHANGED recvs
  /\ ReceiverOnly

ReceiverUnlock(s) ==
  /\ socket_mtx[s] = "receiver"
  /\ socket_mtx' = Released(socket_mtx, s)
  /\ \E u \in After(s, recv[s]) : recv' = [recv EXCEPT ![s] = u]
  /\ UNCHANGED <<running, stops>>
  /\ ReceiverOnly

\* ETERM, from a poll for messages, or from receiving one; after that the thread still
\* goes through the rest of its loop body.
ReceiverStops(s) ==
  /\ stops < MaxStops
  /\ socket_mtx[s] = "receiver"
  /\ recv[s] \in {"poll", "receive"}
  /\ socket_mtx' = Released(socket_mtx, s)
  /\ \E u \in IF recv[s] = "poll" THEN {"top"} ELSE After(s, recv[s]) :
       recv' = [recv EXCEPT ![s] = u]
  /\ running' = running \ {s}
  /\ stops' = stops + 1
  /\ ReceiverOnly

ReceiverStep(s) == GiveWay(s) \/ ReceiverLock(s) \/ ReceiverUnlock(s)

-----------------------------------------------------------------------------
(* The main thread.                                                        *)

\* Execute finds the thread stopped and finalises its tool: the thread is joined,
Restart(s) ==
  /\ main = "execute"
  /\ s \notin running /\ recv[s] = "top"
  /\ restarting' = s
  /\ main' = "erase"
  /\ UNCHANGED <<managed, alive, listing, locks, conns, reqs, recvs, lists,
                 whom, advertised, calls>>

BugNoExclusiveLock == TRUE
Exclusive == readers = {}

\* the socket taken out of the map,
BugLeftIn == managed
TakenOut == managed \ {restarting}

Erase ==
  /\ main = "erase"
  /\ Exclusive
  /\ managed' = TakenOut
  /\ main' = "delete"
  /\ UNCHANGED <<alive, restarting, listing, locks, conns, reqs, recvs, lists,
                 whom, advertised, calls>>

\* and deleted.
Delete ==
  /\ main = "delete"
  /\ alive' = alive \ {restarting}
  /\ main' = "initialise"
  /\ UNCHANGED <<managed, restarting, listing, locks, conns, reqs, recvs, lists,
                 whom, advertised, calls>>

\* Initialise makes another, and the thread.  If that cannot be created, Execute goes on
\* all the same and finds it stopped later: as if it had stopped at its first poll.
Initialise ==
  /\ main = "initialise"
  /\ Exclusive
  /\ managed' = managed \cup {restarting}
  /\ alive' = alive \cup {restarting}
  /\ running' = running \cup {restarting}
  /\ request' = [request EXCEPT ![restarting] = FALSE]
  /\ connections' = [connections EXCEPT ![restarting] = {}]
  /\ linked' = [linked EXCEPT ![restarting] = {}]
  /\ main' = "execute"
  /\ UNCHANGED <<restarting, listing, readers, socket_mtx, connections_mtx, reqs,
                 recv, stops, lists, whom, advertised, calls>>

\* SocketManager::Execute, if there are new clients.
ListBegin ==
  /\ main = "execute"
  /\ new_clients
  /\ new_clients' = FALSE
  /\ clientsmap' = {}
  /\ torn' = FALSE
  /\ readers' = readers \cup {"main"}
  /\ listing' = managed
  /\ main' = "list"
  /\ UNCHANGED <<managed, alive, restarting, socket_mtx, connections_mtx, request,
                 conns, reqs, recvs, clients, whom, advertised, calls>>

List(s) ==
  /\ main = "list"
  /\ s \in listing
  /\ connections_mtx[s] = "nobody"
  /\ clientsmap' = clientsmap \cup ({s} \X connections[s])
  /\ listing' = listing \ {s}
  /\ UNCHANGED <<managed, alive, restarting, main, locks, conns, reqs, recvs,
                 new_clients, clients, torn, whom, advertised, calls>>

BugFlagResetLast == new_clients' = FALSE
FlagAfterList == new_clients' = new_clients

\* An empty list is not shown.
ListEnd ==
  /\ main = "list"
  /\ listing = {}
  /\ clients' = IF clientsmap # {} THEN clientsmap ELSE clients
  /\ FlagAfterList
  /\ readers' = readers \ {"main"}
  /\ main' = "execute"
  /\ UNCHANGED <<managed, alive, restarting, listing, socket_mtx, connections_mtx,
                 request, conns, reqs, recvs, clientsmap, torn, whom, advertised, calls>>

MainStep ==
  \/ \E s \in Socket : Restart(s) \/ List(s)
  \/ Erase \/ Delete \/ Initialise
  \/ ListBegin \/ ListEnd

\* A client is heard of by service discovery.
Advertise(c) ==
  /\ c \notin advertised
  /\ advertised' = advertised \cup {c}
  /\ UNCHANGED <<locks, conns, reqs, recvs, mains, lists, whom, calls>>

Next ==
  \/ BeginUpdate \/ BeginClear \/ BeginDisconnect
  \/ \E r \in Requester : RequesterStep(r)
  \/ \E s \in Socket : ReceiverStep(s) \/ ReceiverStops(s)
  \/ MainStep
  \/ \E c \in Client : Advertise(c)

Spec == Init /\ [][Next]_vars

\* A requester's next step, but that it has the socket's mutex only while the other
\* sleeps, or is not called, and the receiver gives way or has stopped.
Proceeds(r) ==
  /\ RequesterStep(r)
  /\ at[r] = "wait" => /\ \A q \in Requester \ {r} : at[q] = "idle"
                       /\ request[cur[r]] /\ recv[cur[r]] \notin Stage

\* Each thread is scheduled.  No mutex is fair, but who waits for one has it some time
\* when nobody else is after it: the manager sleeps for a second between its updates,
\* and the main thread between its rounds.  Only a receiver is after a mutex, that of
\* its socket, all the time.
Fairness ==
  /\ WF_vars(BeginUpdate)
  /\ WF_vars(\E r \in Requester : RequesterStep(r))
  /\ \A r \in Requester : SF_vars(Proceeds(r))
  /\ \A s \in Socket : /\ WF_vars(ReceiverStep(s))
                       /\ SF_vars(at["manager"] = "idle" /\ ReceiverLock(s))
  /\ SF_vars(MainStep)

FairSpec == Spec /\ Fairness

-----------------------------------------------------------------------------
TypeOK ==
  /\ managed \subseteq alive /\ alive \subseteq Socket
  /\ readers \subseteq Requester \cup {"main"}
  /\ socket_mtx \in [Socket -> Thread]
  /\ connections_mtx \in [Socket -> Thread]
  /\ request \in [Socket -> BOOLEAN]
  /\ connections \in [Socket -> SUBSET Client]
  /\ linked \in [Socket -> SUBSET Client]
  /\ at \in [Requester -> {"idle", "next", "ask", "wait", "granted", "locked", "both", "tell"}]
  /\ op \in [Requester -> {"none", "update", "clear", "disconnect"}]
  /\ cur \in [Requester -> Socket]
  /\ todo \in [Requester -> SUBSET Socket]
  /\ recv \in [Socket -> {"top"} \cup Stage]
  /\ running \subseteq Socket
  /\ main \in {"execute", "erase", "delete", "initialise", "list"}
  /\ restarting \in Socket
  /\ listing \subseteq Socket
  /\ new_clients \in BOOLEAN
  /\ clientsmap \subseteq Socket \X Client /\ clients \subseteq Socket \X Client
  /\ torn \in BOOLEAN
  /\ whom \subseteq Client /\ advertised \subseteq Client
  /\ calls \in 0..MaxCalls /\ stops \in 0..MaxStops

\* A requester is calling the socket of s.
Managing(r, s) == at[r] = "both" /\ cur[r] = s /\ op[r] # "clear"

\* A zmq socket is used by one thread at a time.
UsedAlone ==
  \A s \in Socket, r \in Requester :
    Managing(r, s) => /\ socket_mtx[s] # "receiver"
                      /\ \A q \in Requester \ {r} : ~Managing(q, s)

\* No socket, mutex or flag of one that was deleted is touched by a requester that
\* found it in the map, by its receiver or by the main thread.
NotDeleted ==
  /\ \A r \in Requester : at[r] \notin {"idle", "next"} => cur[r] \in alive
  /\ \A s \in Socket : recv[s] # "top" \/ s \in running => s \in alive
  /\ listing \subseteq alive

\* SocketManager knows no client the socket is not connected to: disconnecting one
\* that is not throws, in the thread of slow control.
KnownAreLinked == \A s \in Socket : connections[s] \subseteq linked[s]

\* Whoever calls a socket has it to itself, it is there, and it is in the state its
\* map of connections says.
SocketIsSafe == UsedAlone /\ NotDeleted /\ KnownAreLinked

\* "give priority to socket manager, otherwise we may lock it too frequently and
\* prevent it getting access": while the request stands the wait comes to an end.
\* (Two requesters have one flag, and one of them resets the other's.)
Asking(r) == at[r] = "wait" /\ request[cur[r]]
RequestIsServed == \A r \in Requester : Asking(r) ~> ~Asking(r)

\* Slow control's list of clients is in the end that of all who advertise themselves,
\* unless the last making of it was torn, or a requester waits for ever because its
\* request was reset.
ClientsAreListed ==
  \/ <>[](torn \/ clients = Socket \X advertised)
  \/ \E r \in Requester : <>[](at[r] = "wait")
=============================================================================
