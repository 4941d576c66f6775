------------------------------ MODULE Dispatcher ------------------------------
(***************************************************************************)
(* volumesDispatcher_handler, the ports it lends to clients, and the       *)
(* threads it starts: one clientDiskAquire_handler per DiskRequest and one *)
(* clientDiskRelease_handler per DiskRelease, both named by their client.  *)
(*                                                                         *)
(* What the threads share here is the array portsArray and the process's   *)
(* file descriptors.  A Socket keeps the number m_sock after close_socket  *)
(* and its destructor closes that number again, so a descriptor can be     *)
(* closed by a thread it does not belong to.  Descriptors are therefore    *)
(* numbers, and what a number stands for is looked up when it is used.     *)
(*                                                                         *)
(* What release() and the client's mount do in between is VolumePool's.    *)
(* SyncAll and unknown requests start nothing that uses a port.            *)
(***************************************************************************)
EXTENDS Integers

CONSTANTS
  Client,     \* the machines, each of which sends one request
  Releasing,  \* those whose request is a DiskRelease; the others ask for a disk
  NPorts,     \* the size of portsArray: 10 in the program
  Fd,         \* the descriptors that may be in use
  MayDie,     \* may a client go away before its request is over?
  Prompt      \* does a handler listen within the two seconds its client sleeps?

NoClient == "none"
Free == <<"free", NoClient>>    \* a descriptor that is not open
NoFd == -1                      \* m_sock of a Socket that was not opened
Ports == 1 .. NPorts
Overflow == 0                   \* get_available_port's -1: port 65535, of no array element
NoPort == -1

ASSUME ClientAssumption == Releasing \subseteq Client /\ NoClient \notin Client
ASSUME SizeAssumption == NPorts \in Nat /\ Fd \subseteq Nat
ASSUME ModeAssumption == MayDie \in BOOLEAN /\ Prompt \in BOOLEAN

VARIABLES
  status,   \* status[p]: portsArray[p].status, TRUE while reserved
  fd,       \* fd[x]: what descriptor x stands for, a pair <<kind, client>>
  dpc,      \* where the dispatcher thread is
  new_sock, \* m_sock of the dispatcher's connection
  cur,      \* the client it is connected to
  hpc,      \* hpc[c]: where the handler of c is
  port,     \* port[c]: its portNo
  server,   \* server[c]: m_sock of its listening socket, or its volumes file
  s,        \* s[c]: m_sock of its connection
  queue,    \* queue[c]: whose listening socket its accept waits on
  peer,     \* peer[c]: the client it is connected to
  cpc,      \* cpc[c]: where the client is
  target,   \* target[c]: whose listening socket c is connected to
  aborted   \* has an exception left a thread, and ended the process?

dispatcherVars == <<dpc, new_sock, cur>>
handlerVars == <<hpc, server, s, queue, peer>>
clientVars == <<cpc, target>>
vars == <<status, fd, port, dispatcherVars, handlerVars, clientVars, aborted>>

-----------------------------------------------------------------------------
Kind == {"request", "listen", "connection", "file"}
Opened == {Free} \cup (Kind \X Client)

\* socket, accept or open: some free number, which then stands for f.
Opens(x, f) == fd[x] = Free /\ fd' = [fd EXCEPT ![x] = f]

\* close(x): whatever x stands for by now.
Closed(x) == IF x \in Fd THEN [fd EXCEPT ![x] = Free] ELSE fd

\* A listening socket lives while a descriptor stands for it or an accept waits.
Listens(c) ==
  \/ \E x \in Fd : fd[x] = <<"listen", c>>
  \/ \E h \in Client : hpc[h] = "accepting" /\ queue[h] = c

Bound(p) == {c \in Client : port[c] = p /\ Listens(c)}

\* The handlers that have been given a port and have not given it back.
Holds(c) == hpc[c] \in {"start", "listening", "accepting", "serving", "replied"}
Reserving(c) == cur = c /\ dpc \in {"reply", "close", "spawn"}

DispatcherMoves(p, q) == ~aborted /\ dpc = p /\ dpc' = q
HandlerMoves(c, p, q) == ~aborted /\ hpc[c] = p /\ hpc' = [hpc EXCEPT ![c] = q]
ClientMoves(c, p, q) == cpc[c] = p /\ cpc' = [cpc EXCEPT ![c] = q]

-----------------------------------------------------------------------------
(* volumesDispatcher_handler.                                              *)

AcceptRequest(c) ==
  /\ DispatcherMoves("accept", "read")
  /\ cpc[c] \in {"silent", "sent", "gone"} /\ cur' = c
  /\ \E x \in Fd : Opens(x, <<"request", c>>) /\ new_sock' = x
  /\ UNCHANGED <<status, port, handlerVars, clientVars, aborted>>

\* The client has sent its request; one that releases waits for nothing more.
ReadRequest ==
  /\ DispatcherMoves("read", IF cur \in Releasing THEN "spawn" ELSE "reserve")
  /\ cpc[cur] \in {"sent", "gone"}
  /\ cpc' = [cpc EXCEPT ![cur] = IF @ = "gone" \/ cur \in Releasing THEN "over" ELSE @]
  /\ UNCHANGED <<status, fd, port, new_sock, cur, handlerVars, target, aborted>>

\* recv returns 0, or its descriptor is another's by now: the loop starts again.
ReadFails ==
  /\ DispatcherMoves("read", "destroy")
  /\ cpc[cur] = "over" \/ fd[new_sock] # <<"request", cur>>
  /\ cpc' = [cpc EXCEPT ![cur] = "over"]
  /\ UNCHANGED <<status, fd, port, new_sock, cur, handlerVars, target, aborted>>

\* Mutant of GetAvailablePort: the port is not marked.
GetAvailablePortUnmarked ==
  /\ DispatcherMoves("reserve", "reply")
  /\ \E p \in Ports : ~status[p] /\ port' = [port EXCEPT ![cur] = p]
  /\ UNCHANGED <<status, fd, new_sock, cur, handlerVars, clientVars, aborted>>

\* Mutant of GetAvailablePort: the number of the next port is returned.
GetAvailablePortNext ==
  /\ DispatcherMoves("reserve", "reply")
  /\ \E p \in Ports :
       /\ ~status[p]
       /\ status' = [status EXCEPT ![p] = TRUE]
       /\ port' = [port EXCEPT ![cur] = p + 1]
  /\ UNCHANGED <<fd, new_sock, cur, handlerVars, clientVars, aborted>>

\* Mutant of GetAvailablePort: the loop ends before the last port.
GetAvailablePortShort ==
  /\ DispatcherMoves("reserve", "reply")
  /\ \/ \E p \in Ports \ {NPorts} :
          /\ ~status[p] /\ \A q \in 1 .. p - 1 : status[q]
          /\ status' = [status EXCEPT ![p] = TRUE]
          /\ port' = [port EXCEPT ![cur] = p]
     \/ /\ \A p \in Ports \ {NPorts} : status[p]
        /\ port' = [port EXCEPT ![cur] = Overflow]
        /\ UNCHANGED status
  /\ UNCHANGED <<fd, new_sock, cur, handlerVars, clientVars, aborted>>

\* get_available_port: the first port that is not reserved, or none.
GetAvailablePort ==
  /\ DispatcherMoves("reserve", "reply")
  /\ \/ \E p \in Ports :
          /\ ~status[p] /\ \A q \in 1 .. p - 1 : status[q]
          /\ status' = [status EXCEPT ![p] = TRUE]
          /\ port' = [port EXCEPT ![cur] = p]
     \/ /\ \A p \in Ports : status[p]
        /\ port' = [port EXCEPT ![cur] = Overflow]
        /\ UNCHANGED status
  /\ UNCHANGED <<fd, new_sock, cur, handlerVars, clientVars, aborted>>

\* A client that is gone does not read it, nor one that is not connected there.
SendPort ==
  /\ DispatcherMoves("reply", "close")
  /\ fd[new_sock] # Free
  /\ cpc' = [cpc EXCEPT ![cur] =
               IF @ = "sent" /\ fd[new_sock] = <<"request", cur>> THEN "told" ELSE "over"]
  /\ UNCHANGED <<status, fd, port, new_sock, cur, handlerVars, target, aborted>>

\* The write throws; the exception is caught, and the port stays reserved.
SendPortFails ==
  /\ DispatcherMoves("reply", "destroy")
  /\ cpc[cur] = "over" \/ fd[new_sock] # <<"request", cur>>
  /\ cpc' = [cpc EXCEPT ![cur] = "over"]
  /\ UNCHANGED <<status, fd, port, new_sock, cur, handlerVars, target, aborted>>

\* new_sock.close_socket(): before the thread is started for a DiskRequest,
\* after it for a DiskRelease.
CloseSocket ==
  /\ DispatcherMoves("close", IF cur \in Releasing THEN "destroy" ELSE "spawn")
  /\ fd' = Closed(new_sock)
  /\ UNCHANGED <<status, port, new_sock, cur, handlerVars, clientVars, aborted>>

Spawn ==
  /\ DispatcherMoves("spawn", IF cur \in Releasing THEN "close" ELSE "destroy")
  /\ hpc' = [hpc EXCEPT ![cur] = IF cur \in Releasing THEN "open" ELSE "start"]
  /\ UNCHANGED <<status, fd, port, new_sock, cur, server, s, queue, peer, clientVars, aborted>>

\* Mutant of Destroy: the dispatcher joins the thread it has started.
DestroyJoined ==
  /\ DispatcherMoves("destroy", "accept")
  /\ hpc[cur] \in {"none", "done"}
  /\ fd' = Closed(new_sock) /\ new_sock' = NoFd
  /\ cur' = NoClient
  /\ UNCHANGED <<status, port, handlerVars, clientVars, aborted>>

\* The destructor of new_sock closes its number, closed before or not.
Destroy ==
  /\ DispatcherMoves("destroy", "accept")
  /\ fd' = Closed(new_sock) /\ new_sock' = NoFd
  /\ cur' = NoClient
  /\ UNCHANGED <<status, port, handlerVars, clientVars, aborted>>

Dispatch ==
  \/ \E c \in Client : AcceptRequest(c)
  \/ ReadRequest \/ ReadFails \/ GetAvailablePort \/ SendPort \/ SendPortFails
  \/ CloseSocket \/ Spawn \/ Destroy

-----------------------------------------------------------------------------
(* clientDiskAquire_handler: its constructors, accept and write are outside *)
(* the try block, so what they throw ends the process.                     *)

OpenServer(c) ==
  /\ HandlerMoves(c, "start", "listening")
  /\ Bound(port[c]) = {}
  /\ \E x \in Fd : Opens(x, <<"listen", c>>) /\ server' = [server EXCEPT ![c] = x]
  /\ UNCHANGED <<status, port, dispatcherVars, s, queue, peer, clientVars, aborted>>

BindFails(c) ==
  /\ HandlerMoves(c, "start", "done")
  /\ Bound(port[c]) # {}
  /\ aborted' = TRUE
  /\ UNCHANGED <<status, fd, port, dispatcherVars, server, s, queue, peer, clientVars>>

\* accept is entered with whatever the number of the listening socket stands for.
EnterAccept(c) ==
  /\ HandlerMoves(c, "listening", "accepting")
  /\ \E d \in Client :
       fd[server[c]] = <<"listen", d>> /\ queue' = [queue EXCEPT ![c] = d]
  /\ UNCHANGED <<status, fd, port, dispatcherVars, server, s, peer, clientVars, aborted>>

AcceptFails(c) ==
  /\ HandlerMoves(c, "listening", "done")
  /\ \A d \in Client : fd[server[c]] # <<"listen", d>>
  /\ aborted' = TRUE
  /\ UNCHANGED <<status, fd, port, dispatcherVars, server, s, queue, peer, clientVars>>

AcceptClient(c) ==
  /\ HandlerMoves(c, "accepting", "serving")
  /\ \E d \in Client, x \in Fd :
       /\ cpc[d] \in {"connected", "reset"} /\ target[d] = queue[c]
       /\ Opens(x, <<"connection", c>>) /\ s' = [s EXCEPT ![c] = x]
       /\ peer' = [peer EXCEPT ![c] = d] /\ target' = [target EXCEPT ![d] = NoClient]
  /\ queue' = [queue EXCEPT ![c] = NoClient]
  /\ UNCHANGED <<status, port, dispatcherVars, server, cpc, aborted>>

\* The volume, or a refusal, has been sent, and the exchange is over.
Replies(c) ==
  /\ HandlerMoves(c, "serving", "replied")
  /\ cpc' = [cpc EXCEPT ![peer[c]] = "over"]
  /\ UNCHANGED <<status, fd, port, dispatcherVars, server, s, queue, peer, target, aborted>>

\* A refusal cannot be written any more.
RefusalFails(c) ==
  /\ HandlerMoves(c, "serving", "done")
  /\ cpc[peer[c]] \in {"reset", "over"} \/ fd[s[c]] # <<"connection", c>>
  /\ aborted' = TRUE
  /\ UNCHANGED <<status, fd, port, dispatcherVars, server, s, queue, peer, clientVars>>

\* Mutant of FreePort: one of the returns without status=false.
FreePortForgotten(c) ==
  /\ HandlerMoves(c, "replied", "closing")
  /\ UNCHANGED <<status, fd, port, dispatcherVars, server, s, queue, peer, clientVars, aborted>>

\* portsArray[portNo-9000-1].status=false, which for the port -1 is a write to
\* memory before the array: it may go unnoticed, or end the process.
FreePort(c) ==
  /\ HandlerMoves(c, "replied", "closing")
  /\ \/ port[c] \in Ports /\ status' = [status EXCEPT ![port[c]] = FALSE] /\ UNCHANGED aborted
     \/ port[c] = Overflow /\ UNCHANGED status /\ aborted' \in {aborted, TRUE}
  /\ UNCHANGED <<fd, port, dispatcherVars, server, s, queue, peer, clientVars>>

\* The destructors of s and of server, in this order.
CloseConnection(c) ==
  /\ HandlerMoves(c, "closing", "closed")
  /\ fd' = Closed(s[c])
  /\ UNCHANGED <<status, port, dispatcherVars, server, s, queue, peer, clientVars, aborted>>

CloseServer(c) ==
  /\ HandlerMoves(c, "closed", "done")
  /\ fd' = Closed(server[c])
  /\ UNCHANGED <<status, port, dispatcherVars, server, s, queue, peer, clientVars, aborted>>

-----------------------------------------------------------------------------
(* clientDiskRelease_handler: remove() writes the volumes file.            *)

OpenStream(c) ==
  /\ HandlerMoves(c, "open", "closed")
  /\ \E x \in Fd : Opens(x, <<"file", c>>) /\ server' = [server EXCEPT ![c] = x]
  /\ UNCHANGED <<status, port, dispatcherVars, s, queue, peer, clientVars, aborted>>

\* The volume is not in the list.
NothingToRemove(c) ==
  /\ HandlerMoves(c, "open", "done")
  /\ UNCHANGED <<status, fd, port, dispatcherVars, server, s, queue, peer, clientVars, aborted>>

Handle(c) ==
  \/ OpenServer(c) \/ BindFails(c) \/ EnterAccept(c) \/ AcceptFails(c) \/ AcceptClient(c)
  \/ Replies(c) \/ RefusalFails(c) \/ FreePort(c) \/ CloseConnection(c) \/ CloseServer(c)
  \/ OpenStream(c) \/ NothingToRemove(c)

-----------------------------------------------------------------------------
(* The client programs.                                                    *)

ClientConnects(c) ==
  /\ ClientMoves(c, "start", "silent")
  /\ UNCHANGED <<status, fd, port, dispatcherVars, handlerVars, target, aborted>>

ClientSends(c) ==
  /\ ClientMoves(c, "silent", "sent")
  /\ UNCHANGED <<status, fd, port, dispatcherVars, handlerVars, target, aborted>>

\* After two seconds: to the port it was told.
ClientConnectsToPort(c) ==
  /\ Prompt => hpc[c] \notin {"none", "start"}
  /\ ClientMoves(c, "told", IF Bound(port[c]) = {} THEN "over" ELSE "connected")
  /\ \/ Bound(port[c]) = {} /\ UNCHANGED target
     \/ \E d \in Bound(port[c]) : target' = [target EXCEPT ![c] = d]
  /\ UNCHANGED <<status, fd, port, dispatcherVars, handlerVars, aborted>>

\* The listening socket was closed before it accepted the client.
ClientReset(c) ==
  /\ ClientMoves(c, "connected", "over")
  /\ target[c] # NoClient /\ ~Listens(target[c])
  /\ target' = [target EXCEPT ![c] = NoClient]
  /\ UNCHANGED <<status, fd, port, dispatcherVars, handlerVars, aborted>>

\* A client that goes away after it was connected can still be accepted.
ClientDies(c) ==
  /\ MayDie /\ cpc[c] \in {"silent", "sent", "told", "connected"}
  /\ cpc' = [cpc EXCEPT ![c] = CASE @ = "sent" -> "gone"
                                 [] @ = "connected" -> "reset"
                                 [] OTHER -> "over"]
  /\ UNCHANGED <<status, fd, port, dispatcherVars, handlerVars, target, aborted>>

ClientStep(c) ==
  ClientConnects(c) \/ ClientSends(c) \/ ClientConnectsToPort(c) \/ ClientReset(c)

-----------------------------------------------------------------------------
Init ==
  /\ status = [p \in Ports |-> FALSE]            \* populate_port_array
  /\ fd = [x \in Fd |-> Free]
  /\ dpc = "accept" /\ new_sock = NoFd /\ cur = NoClient
  /\ hpc = [c \in Client |-> "none"]
  /\ port = [c \in Client |-> NoPort]
  /\ server = [c \in Client |-> NoFd] /\ s = [c \in Client |-> NoFd]
  /\ queue = [c \in Client |-> NoClient] /\ peer = [c \in Client |-> NoClient]
  /\ cpc = [c \in Client |-> "start"] /\ target = [c \in Client |-> NoClient]
  /\ aborted = FALSE

Next == Dispatch \/ \E c \in Client : Handle(c) \/ ClientStep(c) \/ ClientDies(c)

Spec == Init /\ [][Next]_vars

\* The threads run, and a client that lives runs its program.
FairSpec ==
  /\ Spec
  /\ WF_vars(Dispatch)
  /\ \A c \in Client : WF_vars(Handle(c)) /\ WF_vars(ClientStep(c))

-----------------------------------------------------------------------------
(* Properties.                                                             *)

TypeOK ==
  /\ status \in [Ports -> BOOLEAN]
  /\ fd \in [Fd -> Opened]
  /\ dpc \in {"accept", "read", "reserve", "reply", "close", "spawn", "destroy"}
  /\ new_sock \in Fd \cup {NoFd}
  /\ cur \in Client \cup {NoClient}
  /\ dpc # "accept" => cur \in Client
  /\ hpc \in [Client -> {"none", "start", "listening", "accepting", "serving", "replied",
                         "closing", "closed", "open", "done"}]
  /\ port \in [Client -> Ports \cup {Overflow, NoPort}]
  /\ server \in [Client -> Fd \cup {NoFd}] /\ s \in [Client -> Fd \cup {NoFd}]
  /\ queue \in [Client -> Client \cup {NoClient}] /\ peer \in [Client -> Client \cup {NoClient}]
  /\ cpc \in [Client -> {"start", "silent", "sent", "told", "connected", "gone",
                         "reset", "over"}]
  /\ target \in [Client -> Client \cup {NoClient}]
  /\ aborted \in BOOLEAN

\* PortsExclusive: a port of the array is lent to one client at a time, although
\* the dispatcher and the handlers write the array without a lock.
PortsExclusive ==
  \A c, d \in Client :
    (c # d /\ port[c] \in Ports /\ port[c] = port[d])
      => ~((Holds(c) \/ Reserving(c)) /\ (Holds(d) \/ Reserving(d)))

\* PortsAccounted: a port that is reserved is held by a handler or about to be,
\* unless its client went away before it was told.
PortsAccounted ==
  \A p \in Ports :
    status[p] => \E c \in Client :
      port[c] = p /\ (Holds(c) \/ Reserving(c) \/ (hpc[c] = "none" /\ cpc[c] = "over") \/ aborted)

\* Dispatched: a client that has sent its request is in the end told its port,
\* or let go, however long the handlers of the others take.
Dispatched ==
  \A c \in Client \ Releasing : cpc[c] = "sent" ~> (cpc[c] # "sent" \/ aborted)
=============================================================================
