--------------------------- MODULE DispatcherProofs ---------------------------
(***************************************************************************)
(* TLAPS proofs that a port is lent to one client at a time, and that none *)
(* is lost but with a client, for any number of clients, ports and         *)
(* descriptors, and whoever goes away.                                     *)
(***************************************************************************)
EXTENDS DispatcherLease, TLAPS

\* Who holds a port or is about to has it marked.
Marked == \A c \in Client : (Holds(c) \/ Reserving(c)) /\ port[c] \in Ports => status[port[c]]

\* A request that has not been read has no handler, nor has one being read.
Unserved ==
  /\ \A c \in Client : cpc[c] \in {"start", "silent", "sent", "gone"} => hpc[c] = "none"
  /\ dpc \in {"read", "reserve", "reply", "spawn"} => hpc[cur] = "none"
  /\ (dpc = "close" /\ cur \notin Releasing) => hpc[cur] = "none"
  /\ dpc \in {"close", "spawn"} => cpc[cur] \notin {"start", "silent", "sent", "gone"}

\* A client that releases is lent no port.
Portless ==
  /\ \A c \in Releasing : hpc[c] \in {"none", "open", "closed", "done"} /\ port[c] = NoPort
  /\ dpc \in {"reserve", "reply"} => cur \notin Releasing

PortInv == TypeOK /\ Marked /\ PortsExclusive /\ Unserved /\ Portless

-----------------------------------------------------------------------------
(* The types.                                                              *)

\* Opening and closing a descriptor.
LEMMA DescriptorType ==
  ASSUME fd \in [Fd -> Opened]
  PROVE  /\ \A x \in Fd, k \in Kind, c \in Client : Opens(x, <<k, c>>) => fd' \in [Fd -> Opened]
         /\ \A x : Closed(x) \in [Fd -> Opened]
<1>1. Free \in Opened /\ \A k \in Kind, c \in Client : <<k, c>> \in Opened
  BY DEF Opened
<1> HIDE DEF Opened
<1> QED BY <1>1 DEF Opens, Closed

\* The steps of the dispatcher.
LEMMA DispatchType ==
  ASSUME TypeOK, Dispatch
  PROVE  TypeOK'
<1> USE DEF TypeOK
<1>1. ASSUME NEW c \in Client, AcceptRequest(c) PROVE TypeOK'
  BY <1>1, DescriptorType DEF AcceptRequest, DispatcherMoves, Kind, handlerVars, clientVars, dispatcherVars
<1>2. ASSUME ReadRequest PROVE TypeOK'
  BY <1>2, DescriptorType DEF ReadRequest, DispatcherMoves, Kind, handlerVars, clientVars, dispatcherVars
<1>3. ASSUME ReadFails PROVE TypeOK'
  BY <1>3, DescriptorType DEF ReadFails, DispatcherMoves, Kind, handlerVars, clientVars, dispatcherVars
<1>4. ASSUME GetAvailablePort PROVE TypeOK'
  BY <1>4, DescriptorType DEF GetAvailablePort, DispatcherMoves, Kind, handlerVars, clientVars, dispatcherVars, Ports
<1>5. ASSUME SendPort PROVE TypeOK'
  BY <1>5, DescriptorType DEF SendPort, DispatcherMoves, Kind, handlerVars, clientVars, dispatcherVars
<1>6. ASSUME SendPortFails PROVE TypeOK'
  BY <1>6, DescriptorType DEF SendPortFails, DispatcherMoves, Kind, handlerVars, clientVars, dispatcherVars
<1>7. ASSUME CloseSocket PROVE TypeOK'
  BY <1>7, DescriptorType DEF CloseSocket, DispatcherMoves, Kind, handlerVars, clientVars, dispatcherVars
<1>8. ASSUME Spawn PROVE TypeOK'
  BY <1>8, DescriptorType DEF Spawn, DispatcherMoves, Kind, handlerVars, clientVars, dispatcherVars
<1>9. ASSUME Destroy PROVE TypeOK'
  BY <1>9, DescriptorType DEF Destroy, DispatcherMoves, Kind, handlerVars, clientVars, dispatcherVars
<1> QED BY <1>1, <1>2, <1>3, <1>4, <1>5, <1>6, <1>7, <1>8, <1>9 DEF Dispatch

\* The steps of the handlers.
LEMMA HandleType ==
  ASSUME TypeOK, NEW c \in Client, Handle(c)
  PROVE  TypeOK'
<1> USE DEF TypeOK
<1>1. CASE OpenServer(c)
  BY <1>1, DescriptorType DEF OpenServer, HandlerMoves, Kind, handlerVars, clientVars, dispatcherVars
<1>2. CASE BindFails(c)
  BY <1>2, DescriptorType DEF BindFails, HandlerMoves, Kind, handlerVars, clientVars, dispatcherVars
<1>3. CASE EnterAccept(c)
  BY <1>3, DescriptorType DEF EnterAccept, HandlerMoves, Kind, handlerVars, clientVars, dispatcherVars
<1>4. CASE AcceptFails(c)
  BY <1>4, DescriptorType DEF AcceptFails, HandlerMoves, Kind, handlerVars, clientVars, dispatcherVars
<1>5. CASE AcceptClient(c)
  BY <1>5, DescriptorType DEF AcceptClient, HandlerMoves, Kind, handlerVars, clientVars, dispatcherVars
<1>6. CASE Replies(c)
  BY <1>6, DescriptorType DEF Replies, HandlerMoves, Kind, handlerVars, clientVars, dispatcherVars
<1>7. CASE RefusalFails(c)
  BY <1>7, DescriptorType DEF RefusalFails, HandlerMoves, Kind, handlerVars, clientVars, dispatcherVars
<1>8. CASE FreePort(c)
  BY <1>8, DescriptorType DEF FreePort, HandlerMoves, Kind, handlerVars, clientVars, dispatcherVars
<1>9. CASE CloseConnection(c)
  BY <1>9, DescriptorType DEF CloseConnection, HandlerMoves, Kind, handlerVars, clientVars, dispatcherVars
<1>10. CASE CloseServer(c)
  BY <1>10, DescriptorType DEF CloseServer, HandlerMoves, Kind, handlerVars, clientVars, dispatcherVars
<1>11. CASE OpenStream(c)
  BY <1>11, DescriptorType DEF OpenStream, HandlerMoves, Kind, handlerVars, clientVars, dispatcherVars
<1>12. CASE NothingToRemove(c)
  BY <1>12, DescriptorType DEF NothingToRemove, HandlerMoves, Kind, handlerVars, clientVars, dispatcherVars
<1> QED BY <1>1, <1>2, <1>3, <1>4, <1>5, <1>6, <1>7, <1>8, <1>9, <1>10, <1>11, <1>12 DEF Handle

\* The steps of the clients.
LEMMA ClientType ==
  ASSUME TypeOK, NEW c \in Client, ClientStep(c) \/ ClientDies(c)
  PROVE  TypeOK'
<1> USE DEF TypeOK
<1>1. CASE ClientConnects(c)
  BY <1>1 DEF ClientConnects, ClientMoves, handlerVars, dispatcherVars
<1>2. CASE ClientSends(c)
  BY <1>2 DEF ClientSends, ClientMoves, handlerVars, dispatcherVars
<1>3. CASE ClientConnectsToPort(c)
  BY <1>3 DEF ClientConnectsToPort, ClientMoves, Bound, handlerVars, dispatcherVars
<1>4. CASE ClientReset(c)
  BY <1>4 DEF ClientReset, ClientMoves, handlerVars, dispatcherVars
<1>5. CASE ClientDies(c)
  BY <1>5 DEF ClientDies, handlerVars, dispatcherVars
<1> QED BY <1>1, <1>2, <1>3, <1>4, <1>5 DEF ClientStep

-----------------------------------------------------------------------------
(* The ports.                                                              *)

\* A handler's step: it takes no port and gives back only its own.
LEMMA HandlePorts ==
  ASSUME PortInv, NEW c \in Client, Handle(c)
  PROVE  PortInv'
<1>1. /\ UNCHANGED <<port, dpc, cur>>
      /\ hpc[c] # "none" /\ hpc'[c] # "none"
      /\ \A d \in Client \ {c} : hpc'[d] = hpc[d]
      /\ Holds(c)' => Holds(c)
      /\ hpc[c] \in {"open", "closed"} => hpc'[c] \in {"closed", "done"}
      /\ hpc[c] = "done" => hpc'[c] = "done"
  BY DEF PortInv, TypeOK, Holds, Handle, HandlerMoves, OpenServer, BindFails, EnterAccept, AcceptFails,
     AcceptClient, Replies, RefusalFails, FreePort, CloseConnection, CloseServer, OpenStream,
     NothingToRemove, dispatcherVars
<1>2. \A d \in Client : cpc'[d] = cpc[d] \/ cpc'[d] = "over"
  BY DEF PortInv, TypeOK, Handle, HandlerMoves, OpenServer, BindFails, EnterAccept, AcceptFails,
     AcceptClient, Replies, RefusalFails, FreePort, CloseConnection, CloseServer, OpenStream,
     NothingToRemove, clientVars
<1>3. \/ UNCHANGED status
      \/ ~Holds(c)' /\ Holds(c) /\ port[c] \in Ports /\ status' = [status EXCEPT ![port[c]] = FALSE]
  BY DEF PortInv, TypeOK, Holds, Handle, HandlerMoves, OpenServer, BindFails, EnterAccept, AcceptFails,
     AcceptClient, Replies, RefusalFails, FreePort, CloseConnection, CloseServer, OpenStream,
     NothingToRemove
<1>4. \A d \in Client : (Holds(d)' => Holds(d)) /\ Reserving(d)' = Reserving(d)
  BY <1>1 DEF Holds, Reserving
<1>5. PortsExclusive'
  BY <1>1, <1>4 DEF PortInv, PortsExclusive
<1>6. Unserved' /\ Portless'
  <2>1. hpc[c] # "none" => dpc \notin {"read", "reserve", "reply", "spawn"} \/ cur # c
    BY DEF PortInv, Unserved
  <2>2. Unserved'
    BY <1>1, <1>2, <2>1 DEF PortInv, TypeOK, Unserved
  <2>3. Portless'
    BY <1>1, ClientAssumption DEF PortInv, Portless
  <2> QED BY <2>2, <2>3
<1>7. Marked'
  <2> SUFFICES ASSUME NEW d \in Client, Holds(d)' \/ Reserving(d)', port[d] \in Ports
               PROVE  status'[port[d]]
    BY <1>1 DEF Marked
  <2>1. status[port[d]] /\ (Holds(d) \/ Reserving(d))
    BY <1>4 DEF PortInv, Marked
  <2>2. CASE d = c
    <3>1. ~Reserving(c) \/ c \in Releasing
      BY <1>1 DEF PortInv, Unserved, Reserving
    <3>2. c \in Releasing => port[c] \notin Ports
      BY DEF PortInv, Portless, NoPort, Ports
    <3> QED BY <1>3, <1>4, <2>1, <2>2, <3>1, <3>2
  <2>3. CASE d # c
    <3>1. (Holds(c) /\ port[c] \in Ports) => port[c] # port[d]
      BY <2>1, <2>3 DEF PortInv, PortsExclusive
    <3> QED BY <1>3, <2>1, <3>1 DEF PortInv, TypeOK
  <2> QED BY <2>2, <2>3
<1> QED BY <1>5, <1>6, <1>7, HandleType DEF PortInv

\* A client's step: it does not send its request a second time.
LEMMA ClientPorts ==
  ASSUME PortInv, NEW c \in Client, ClientStep(c) \/ ClientDies(c)
  PROVE  PortInv'
<1>1. UNCHANGED <<status, port, dpc, cur, hpc>>
  BY DEF ClientStep, ClientConnects, ClientSends, ClientConnectsToPort, ClientReset, ClientDies,
     dispatcherVars, handlerVars
<1>2. \A d \in Client : cpc'[d] \in {"start", "silent", "sent", "gone"} =>
        cpc[d] \in {"start", "silent", "sent", "gone"}
  BY DEF PortInv, TypeOK, ClientStep, ClientConnects, ClientSends, ClientConnectsToPort, ClientReset,
     ClientDies, ClientMoves
<1>3. Marked' /\ PortsExclusive' /\ Unserved' /\ Portless'
  BY <1>1, <1>2 DEF PortInv, TypeOK, Marked, PortsExclusive, Unserved, Portless, Holds, Reserving
<1> QED BY <1>3, ClientType DEF PortInv

\* The dispatcher lends a port that is not marked, and marks it.
LEMMA ReservePorts ==
  ASSUME PortInv, GetAvailablePort
  PROVE  PortInv'
<1>1. /\ dpc = "reserve" /\ dpc' = "reply" /\ UNCHANGED <<cur, hpc, cpc>>
      /\ cur \in Client /\ cur \notin Releasing /\ hpc[cur] = "none"
  BY DEF PortInv, TypeOK, Portless, Unserved, GetAvailablePort, DispatcherMoves, handlerVars, clientVars
<1>2. PICK p \in Ports \cup {Overflow} :
        /\ port' = [port EXCEPT ![cur] = p]
        /\ \/ p \in Ports /\ ~status[p] /\ status' = [status EXCEPT ![p] = TRUE]
           \/ p \notin Ports /\ UNCHANGED status
  BY DEF GetAvailablePort, Overflow, Ports
<1>3. /\ port'[cur] = p /\ \A d \in Client \ {cur} : port'[d] = port[d]
      /\ \A q \in Ports : status[q] => status'[q]
      /\ p \in Ports => status'[p]
  BY <1>1, <1>2 DEF PortInv, TypeOK
<1>4. /\ \A d \in Client : Holds(d)' = Holds(d) /\ (Reserving(d)' <=> d = cur) /\ ~Reserving(d)
      /\ ~Holds(cur)
  BY <1>1 DEF Holds, Reserving
<1>5. Marked'
  BY <1>1, <1>3, <1>4 DEF PortInv, Marked
<1>6. \A d \in Client \ {cur} : (port[d] \in Ports /\ Holds(d)) => port[d] # p
  BY <1>2 DEF PortInv, Marked
<1>7. PortsExclusive'
  BY <1>1, <1>3, <1>4, <1>6 DEF PortInv, PortsExclusive
<1>8. Unserved' /\ Portless'
  BY <1>1, <1>3, ClientAssumption DEF PortInv, Unserved, Portless
<1> QED BY <1>5, <1>7, <1>8, DispatchType DEF PortInv, Dispatch

\* The other steps of the dispatcher leave the ports as they are.
LEMMA DispatchPorts ==
  ASSUME PortInv, Dispatch
  PROVE  PortInv'
<1>1. CASE GetAvailablePort
  BY <1>1, ReservePorts
<1>2. CASE ~GetAvailablePort
  <2>1. UNCHANGED <<status, port>>
    BY <1>2 DEF Dispatch, AcceptRequest, ReadRequest, ReadFails, SendPort, SendPortFails,
       CloseSocket, Spawn, Destroy
  <2>2. Marked' /\ PortsExclusive' /\ Unserved' /\ Portless'
    <3> USE DEF DispatcherMoves, handlerVars, clientVars
    <3>1. ASSUME NEW c \in Client, AcceptRequest(c)
          PROVE  Marked' /\ PortsExclusive' /\ Unserved' /\ Portless'
      BY <2>1, <3>1 DEF AcceptRequest, PortInv, Marked, PortsExclusive, Unserved, Portless, Holds, Reserving
    <3>2. CASE ReadRequest \/ ReadFails \/ SendPort \/ SendPortFails
      <4>1. /\ UNCHANGED <<cur, hpc>> /\ cur \in Client
            /\ \A d \in Client : cpc'[d] = cpc[d] \/ cpc'[d] \in {"told", "over"}
            /\ dpc' \in {"close", "spawn"} => cpc'[cur] \in {"told", "over"}
            /\ dpc \in {"read", "reply"}
        BY <3>2 DEF ReadRequest, ReadFails, SendPort, SendPortFails, PortInv, TypeOK
      <4>2. \/ dpc' = "destroy"
            \/ dpc = "read" /\ dpc' = "spawn" /\ cur \in Releasing
            \/ dpc = "read" /\ dpc' = "reserve" /\ cur \notin Releasing
            \/ dpc = "reply" /\ dpc' = "close" /\ cur \notin Releasing
        BY <3>2 DEF ReadRequest, ReadFails, SendPort, SendPortFails, PortInv, Portless
      <4>3. \A d \in Releasing : d \in Client /\ port[d] \notin Ports
        BY ClientAssumption DEF PortInv, Portless, NoPort, Ports
      <4>4. \A d \in Client : Holds(d)' = Holds(d) /\ (Reserving(d)' => Reserving(d) \/ d \in Releasing)
        BY <4>1, <4>2 DEF Holds, Reserving
      <4> QED BY <2>1, <4>1, <4>2, <4>3, <4>4 DEF PortInv, Marked, PortsExclusive, Unserved, Portless
    <3>3. CASE CloseSocket \/ Destroy
      <4>1. UNCHANGED <<hpc, cpc>> /\ \A d \in Client : Reserving(d)' => Reserving(d)
        BY <3>3, ClientAssumption DEF CloseSocket, Destroy, Reserving
      <4>2. dpc' \in {"spawn", "destroy", "accept"} /\ (dpc' = "spawn" => dpc = "close" /\ cur' = cur /\ cur \notin Releasing)
        BY <3>3 DEF CloseSocket, Destroy
      <4> QED BY <2>1, <4>1, <4>2 DEF PortInv, Marked, PortsExclusive, Unserved, Portless, Holds
    <3>4. CASE Spawn
      <4>1. /\ dpc = "spawn" /\ UNCHANGED <<cur, cpc>> /\ cur \in Client /\ hpc[cur] = "none"
            /\ hpc' = [hpc EXCEPT ![cur] = IF cur \in Releasing THEN "open" ELSE "start"]
            /\ dpc' = IF cur \in Releasing THEN "close" ELSE "destroy"
        BY <3>4 DEF Spawn, PortInv, TypeOK, Unserved
      <4>2. cpc[cur] \notin {"start", "silent", "sent", "gone"}
        BY <4>1 DEF PortInv, Unserved
      <4> QED BY <2>1, <4>1, <4>2 DEF PortInv, TypeOK, Marked, PortsExclusive, Unserved, Portless, Holds, Reserving
    <3> QED BY <1>2, <3>1, <3>2, <3>3, <3>4 DEF Dispatch
  <2> QED BY <2>2, DispatchType DEF PortInv
<1> QED BY <1>1, <1>2

\* At the start no port is marked.
LEMMA InitPorts == Init => PortInv
<1> SUFFICES ASSUME Init PROVE PortInv
  OBVIOUS
<1>1. TypeOK
  <2>1. Free \in Opened
    BY DEF Opened
  <2> HIDE DEF Opened
  <2> QED BY <2>1 DEF Init, TypeOK
<1>2. \A c \in Client : ~Holds(c) /\ ~Reserving(c) /\ hpc[c] = "none" /\ port[c] = NoPort
  BY DEF Init, Holds, Reserving
<1> QED BY <1>1, <1>2, ClientAssumption
        DEF Init, PortInv, Marked, PortsExclusive, Unserved, Portless

\* PortInv is inductive.
LEMMA NextPorts == PortInv /\ [Next]_vars => PortInv'
<1> SUFFICES ASSUME PortInv, [Next]_vars PROVE PortInv'
  OBVIOUS
<1>1. CASE UNCHANGED vars
  BY <1>1 DEF vars, dispatcherVars, handlerVars, clientVars, PortInv, TypeOK, Marked, PortsExclusive,
     Unserved, Portless, Holds, Reserving
<1> QED BY <1>1, DispatchPorts, HandlePorts, ClientPorts DEF Next

\* Every reachable state has the right types.
THEOREM DispatcherTyped == Spec => []TypeOK
<1>1. PortInv => TypeOK
  BY DEF PortInv
<1> QED BY <1>1, InitPorts, NextPorts, PTL DEF Spec

\* A port of the array is lent to one client at a time, for any numbers of
\* ports, clients and descriptors.
THEOREM PortsAreExclusive == Spec => []PortsExclusive
<1>1. PortInv => PortsExclusive
  BY DEF PortInv
<1> QED BY <1>1, InitPorts, NextPorts, PTL DEF Spec

-----------------------------------------------------------------------------
(* No port is lost.                                                        *)

\* A client whose request has not been read.
Early(c) == cpc[c] \in {"start", "silent", "sent", "gone"}

\* A client is lent a port once: it has none before its request is answered.
Unlent ==
  /\ \A c \in Client : Early(c) /\ ~(c = cur /\ dpc = "reply") => port[c] = NoPort
  /\ dpc \in {"read", "reserve"} => port[cur] = NoPort

\* Who accounts for a port that is marked.
Accounts(c) == Holds(c) \/ Reserving(c) \/ (hpc[c] = "none" /\ cpc[c] = "over") \/ aborted

AccountInv == PortInv /\ Unlent /\ PortsAccounted

\* What has no port of the array.
LEMMA NoPortInArray == NoPort \notin Ports /\ Overflow \notin Ports /\ NoClient \notin Client
BY ClientAssumption DEF NoPort, Overflow, Ports

\* When no port is marked or lent, whoever accounted for one must still do so.
LEMMA StillAccounted ==
  ASSUME PortsAccounted, port' = port,
         \A p \in Ports : status'[p] => status[p],
         \A c \in Client : Accounts(c) /\ port[c] \in Ports => Accounts(c)' \/ ~status'[port[c]]
  PROVE  PortsAccounted'
BY DEF PortsAccounted, Accounts

\* A handler gives its port back before it ends, or takes the process with it.
LEMMA HandleAccounts ==
  ASSUME AccountInv, NEW c \in Client, Handle(c)
  PROVE  Unlent' /\ PortsAccounted'
<1>1. /\ UNCHANGED <<port, dpc, cur>>
      /\ hpc[c] # "none" /\ hpc'[c] # "none" /\ ~aborted
      /\ \A d \in Client \ {c} : hpc'[d] = hpc[d]
      /\ \A d \in Client : cpc'[d] = cpc[d] \/ cpc'[d] = "over"
  BY DEF AccountInv, PortInv, TypeOK, Handle, HandlerMoves, OpenServer, BindFails, EnterAccept, AcceptFails,
     AcceptClient, Replies, RefusalFails, FreePort, CloseConnection, CloseServer, OpenStream,
     NothingToRemove, dispatcherVars, clientVars
<1>2. /\ \A p \in Ports : status'[p] => status[p]
      /\ Holds(c) /\ port[c] \in Ports => Holds(c)' \/ aborted' \/ ~status'[port[c]]
  BY NoPortInArray
     DEF AccountInv, PortInv, TypeOK, Holds, Handle, HandlerMoves, OpenServer, BindFails, EnterAccept,
     AcceptFails, AcceptClient, Replies, RefusalFails, FreePort, CloseConnection, CloseServer, OpenStream,
     NothingToRemove
<1>3. Unlent'
  BY <1>1 DEF AccountInv, Unlent, Early
<1>4. \A d \in Client : Accounts(d) /\ port[d] \in Ports => Accounts(d)' \/ ~status'[port[d]]
  BY <1>1, <1>2 DEF Accounts, Holds, Reserving
<1> QED BY <1>1, <1>2, <1>3, <1>4, StillAccounted DEF AccountInv

\* A client that is gone stays so.
LEMMA ClientAccounts ==
  ASSUME AccountInv, NEW c \in Client, ClientStep(c) \/ ClientDies(c)
  PROVE  Unlent' /\ PortsAccounted'
<1>1. UNCHANGED <<status, port, dpc, cur, hpc, aborted>>
  BY DEF ClientStep, ClientConnects, ClientSends, ClientConnectsToPort, ClientReset, ClientDies,
     dispatcherVars, handlerVars
<1>2. \A d \in Client : (Early(d)' => Early(d)) /\ (cpc[d] = "over" => cpc'[d] = "over")
  BY DEF AccountInv, PortInv, TypeOK, ClientStep, ClientConnects, ClientSends, ClientConnectsToPort,
     ClientReset, ClientDies, ClientMoves, Early
<1>3. Unlent'
  BY <1>1, <1>2 DEF AccountInv, Unlent
<1>4. \A d \in Client : Accounts(d) => Accounts(d)'
  BY <1>1, <1>2 DEF Accounts, Holds, Reserving
<1> QED BY <1>1, <1>3, <1>4, StillAccounted DEF AccountInv

\* The port that is marked is the current client's, which had none before.
LEMMA ReserveAccounts ==
  ASSUME AccountInv, GetAvailablePort
  PROVE  Unlent' /\ PortsAccounted'
<1>1. /\ dpc = "reserve" /\ dpc' = "reply" /\ UNCHANGED <<cur, hpc, cpc, aborted>>
      /\ cur \in Client /\ port[cur] = NoPort
      /\ \A d \in Client \ {cur} : port'[d] = port[d]
  BY DEF AccountInv, PortInv, TypeOK, Unlent, GetAvailablePort, DispatcherMoves, handlerVars, clientVars
<1>2. Unlent'
  BY <1>1 DEF AccountInv, Unlent, Early
<1>3. \A p \in Ports : status'[p] => status[p] \/ port'[cur] = p
  BY <1>1 DEF AccountInv, PortInv, TypeOK, GetAvailablePort
<1>4. Accounts(cur)' /\ \A d \in Client : Accounts(d) => Accounts(d)'
  BY <1>1 DEF Accounts, Holds, Reserving
<1>5. \A p \in Ports, d \in Client : port[d] = p => d # cur
  BY <1>1, NoPortInArray
<1> QED BY <1>1, <1>2, <1>3, <1>4, <1>5 DEF AccountInv, PortsAccounted, Accounts

\* The dispatcher hands its reservation to the handler, or loses it with a
\* client that has gone away.
LEMMA DispatchAccounts ==
  ASSUME AccountInv, Dispatch
  PROVE  Unlent' /\ PortsAccounted'
<1> USE DEF DispatcherMoves, handlerVars, clientVars
<1>1. CASE GetAvailablePort
  BY <1>1, ReserveAccounts
<1>2. ASSUME NEW c \in Client, AcceptRequest(c) PROVE Unlent' /\ PortsAccounted'
  <2>1. /\ dpc = "accept" /\ dpc' = "read" /\ cur' = c /\ Early(c)
        /\ UNCHANGED <<status, port, hpc, cpc, aborted>>
    BY <1>2 DEF AcceptRequest, Early
  <2>2. Unlent'
    BY <2>1 DEF AccountInv, Unlent, Early
  <2>3. \A d \in Client : Accounts(d) => Accounts(d)'
    BY <2>1 DEF Accounts, Holds, Reserving
  <2> QED BY <2>1, <2>2, <2>3, StillAccounted DEF AccountInv
<1>3. CASE ReadRequest \/ ReadFails \/ SendPort \/ SendPortFails
  <2>1. /\ UNCHANGED <<status, port, cur, hpc, aborted>> /\ cur \in Client
        /\ dpc \in {"read", "reply"} /\ dpc' \notin {"read", "reply"}
        /\ \A d \in Client : (Early(d)' => Early(d)) /\ (cpc[d] = "over" => cpc'[d] = "over")
        /\ dpc = "reply" => ~Early(cur)'
        /\ dpc = "reply" => dpc' = "close" \/ (dpc' = "destroy" /\ cpc'[cur] = "over")
    BY <1>3 DEF ReadRequest, ReadFails, SendPort, SendPortFails, AccountInv, PortInv, TypeOK, Early
  <2>2. Unlent'
    BY <2>1 DEF AccountInv, Unlent
  <2>3. dpc = "reply" => hpc[cur] = "none"
    BY DEF AccountInv, PortInv, Unserved
  <2>4. \A d \in Client : Accounts(d) => Accounts(d)'
    BY <2>1, <2>3 DEF Accounts, Holds, Reserving
  <2> QED BY <2>1, <2>2, <2>4, StillAccounted DEF AccountInv
<1>4. CASE CloseSocket \/ Destroy
  <2>1. /\ UNCHANGED <<status, port, hpc, cpc, aborted>>
        /\ \/ dpc = "close" /\ cur' = cur /\ dpc' = IF cur \in Releasing THEN "destroy" ELSE "spawn"
           \/ dpc = "destroy" /\ cur' = NoClient /\ dpc' = "accept"
    BY <1>4 DEF CloseSocket, Destroy
  <2>2. Unlent'
    BY <2>1 DEF AccountInv, Unlent, Early
  <2>3. \A d \in Releasing : port[d] \notin Ports
    BY NoPortInArray DEF AccountInv, PortInv, Portless
  <2>4. \A d \in Client : Accounts(d) /\ port[d] \in Ports => Accounts(d)'
    BY <2>1, <2>3 DEF Accounts, Holds, Reserving
  <2> QED BY <2>1, <2>2, <2>4, StillAccounted DEF AccountInv
<1>5. CASE Spawn
  <2>1. /\ dpc = "spawn" /\ UNCHANGED <<status, port, cur, cpc, aborted>> /\ cur \in Client
        /\ hpc' = [hpc EXCEPT ![cur] = IF cur \in Releasing THEN "open" ELSE "start"]
        /\ dpc' \notin {"read", "reserve", "reply"}
    BY <1>5 DEF Spawn, AccountInv, PortInv, TypeOK
  <2>2. Unlent'
    BY <2>1 DEF AccountInv, Unlent, Early
  <2>3. \A d \in Releasing : port[d] \notin Ports
    BY NoPortInArray DEF AccountInv, PortInv, Portless
  <2>4. \A d \in Client : Accounts(d) /\ port[d] \in Ports => Accounts(d)'
    BY <2>1, <2>3 DEF AccountInv, PortInv, TypeOK, Accounts, Holds, Reserving
  <2> QED BY <2>1, <2>2, <2>4, StillAccounted DEF AccountInv
<1> QED BY <1>1, <1>2, <1>3, <1>4, <1>5 DEF Dispatch

\* At the start no port is lent.
LEMMA InitAccounts == Init => AccountInv
<1>1. Init => Unlent /\ PortsAccounted
  BY NoPortInArray DEF Init, Unlent, Early, PortsAccounted
<1> QED BY <1>1, InitPorts DEF AccountInv

\* AccountInv is inductive.
LEMMA NextAccounts == AccountInv /\ [Next]_vars => AccountInv'
<1> SUFFICES ASSUME AccountInv, [Next]_vars PROVE AccountInv'
  OBVIOUS
<1>1. PortInv'
  BY NextPorts DEF AccountInv
<1>2. CASE UNCHANGED vars
  BY <1>1, <1>2 DEF vars, dispatcherVars, handlerVars, clientVars, AccountInv, Unlent, Early,
     PortsAccounted, Holds, Reserving
<1> QED BY <1>1, <1>2, DispatchAccounts, HandleAccounts, ClientAccounts DEF Next, AccountInv

\* A port that is marked is held by a handler, or about to be, or is one that
\* a client who went away took with it: for any numbers of ports, clients and
\* descriptors.
THEOREM PortsAreAccounted == Spec => []PortsAccounted
<1>1. AccountInv => PortsAccounted
  BY DEF AccountInv
<1> QED BY <1>1, InitAccounts, NextAccounts, PTL DEF Spec

-----------------------------------------------------------------------------
(* Dispatcher implements PortLease.                                        *)

LEMMA InitLease == Init => Lease!Init
<1> SUFFICES ASSUME Init PROVE Lease!Init
  OBVIOUS
<1>1. \A c \in Client : ~Has(c) /\ port[c] = NoPort
  BY NoPortInArray DEF Init, Has
<1>2. Lent = [c \in Client |-> NoPort] /\ Pending = NoClient /\ Lost = {}
  BY <1>1 DEF Init, Lent, Pending, Lost
<1> QED BY <1>1, <1>2 DEF Init, Lease!Init

\* A step that changes neither the array nor who knows of a port.
LEMMA NothingLent ==
  ASSUME UNCHANGED <<status, port, aborted>>, Pending' = Pending,
         \A c \in Client : Has(c)' = Has(c)
  PROVE  UNCHANGED Lease!vars
<1>1. Lent' = Lent /\ Lost' = Lost
  BY DEF Lent, Lost
<1> QED BY <1>1 DEF Lease!vars

\* A handler gives back its own port, or the process ends.
LEMMA HandleLease ==
  ASSUME AccountInv, NEW c \in Client, Handle(c)
  PROVE  [Lease!Next]_(Lease!vars)
<1>1. /\ UNCHANGED <<port, dpc, cur>> /\ ~aborted /\ {aborted, aborted'} \subseteq BOOLEAN
      /\ hpc[c] # "none" /\ \A d \in Client \ {c} : hpc'[d] = hpc[d]
  BY DEF AccountInv, PortInv, TypeOK, Handle, HandlerMoves, OpenServer, BindFails, EnterAccept, AcceptFails,
     AcceptClient, Replies, RefusalFails, FreePort, CloseConnection, CloseServer, OpenStream,
     NothingToRemove, dispatcherVars
<1>2. \A d \in Client : Reserving(d)' = Reserving(d) /\ (d # c => Holds(d)' = Holds(d))
  BY <1>1 DEF Reserving, Holds
<1>3. CASE aborted'
  <2>1. \A d \in Client : ~Has(d)'
    BY <1>3 DEF Has
  <2>2. Lent' = [d \in Client |-> NoPort] /\ Pending' = NoClient /\ Lost' = {}
    BY <1>3, <2>1 DEF Lent, Pending, Lost
  <2>3. Lease!Stop
    BY <1>1, <1>3, <2>2 DEF Lease!Stop
  <2> QED BY <2>3 DEF Lease!Next
<1>4. CASE ~aborted' /\ status' # status
  <2>1. /\ Holds(c) /\ ~Holds(c)' /\ port[c] \in Ports
        /\ status' = [status EXCEPT ![port[c]] = FALSE]
    BY <1>4 DEF AccountInv, PortInv, TypeOK, Holds, Handle, HandlerMoves, OpenServer, BindFails,
       EnterAccept, AcceptFails, AcceptClient, Replies, RefusalFails, FreePort, CloseConnection,
       CloseServer, OpenStream, NothingToRemove
  <2>2. ~Reserving(c)
    <3>1. c \notin Releasing
      BY <2>1, NoPortInArray DEF AccountInv, PortInv, Portless
    <3> QED BY <1>1, <3>1 DEF AccountInv, PortInv, Unserved, Reserving
  <2>3. Has(c) /\ ~Has(c)' /\ \A d \in Client \ {c} : Has(d)' = Has(d)
    BY <1>1, <1>2, <1>4, <2>1, <2>2 DEF Has
  <2>4. Lent' = [Lent EXCEPT ![c] = NoPort] /\ Lent[c] \in Ports
    BY <1>1, <2>1, <2>3 DEF Lent
  <2>5. Pending # c /\ Pending' = Pending
    <3>1. ~(dpc = "reply" /\ cur = c)
      BY <2>2 DEF Reserving
    <3>2. Pending # c
      BY <3>1, NoPortInArray DEF Pending
    <3> QED BY <1>1, <2>3, <3>1, <3>2 DEF Pending
  <2>6. Lost' = Lost
    <3> SUFFICES ASSUME NEW p \in Ports PROVE (p \in Lost)' <=> p \in Lost
      BY DEF Lost
    <3>1. CASE p = port[c]
      BY <1>1, <2>1, <2>3, <3>1 DEF Lost, AccountInv, PortInv, TypeOK
    <3>2. CASE p # port[c]
      <4>1. status'[p] = status[p]
        BY <2>1, <3>2 DEF AccountInv, PortInv, TypeOK
      <4>2. \A d \in Client : (Has(d)' /\ port'[d] = p) <=> (Has(d) /\ port[d] = p)
        BY <1>1, <2>3, <3>2
      <4> QED BY <1>1, <1>4, <4>1, <4>2 DEF Lost
    <3> QED BY <3>1, <3>2
  <2>7. Lease!GiveBack(c)
    BY <1>1, <1>4, <2>4, <2>5, <2>6 DEF Lease!GiveBack
  <2> QED BY <2>7 DEF Lease!Next
<1>5. CASE ~aborted' /\ status' = status
  <2>1. port[c] \in Ports => Holds(c)' = Holds(c)
    <3>1. CASE FreePort(c)
      <4>1. port[c] \in Ports => status[port[c]]
        BY <3>1 DEF AccountInv, PortInv, Marked, FreePort, HandlerMoves, Holds
      <4>2. port[c] \in Ports => status'[port[c]] = FALSE
        BY <3>1, NoPortInArray DEF FreePort, AccountInv, PortInv, TypeOK
      <4> QED BY <1>5, <4>1, <4>2
    <3>2. CASE ~FreePort(c)
      BY <1>5, <3>2 DEF AccountInv, PortInv, TypeOK, Holds, Handle, HandlerMoves, OpenServer, BindFails,
         EnterAccept, AcceptFails, AcceptClient, Replies, RefusalFails, CloseConnection,
         CloseServer, OpenStream, NothingToRemove
    <3> QED BY <3>1, <3>2
  <2>2. \A d \in Client : Has(d)' = Has(d)
    BY <1>1, <1>2, <1>5, <2>1 DEF Has
  <2>3. Pending' = Pending
    BY <1>1, <2>2 DEF Pending
  <2>4. UNCHANGED <<status, port, aborted>>
    BY <1>1, <1>5
  <2>5. UNCHANGED Lease!vars
    BY <2>2, <2>3, <2>4, NothingLent
  <2> QED BY <2>5
<1> QED BY <1>3, <1>4, <1>5

\* The port reserved is one that nobody has and none has lost; a client is turned
\* away when there is no such port.
LEMMA ReserveLease ==
  ASSUME AccountInv, GetAvailablePort
  PROVE  Lease!Next
<1>1. /\ dpc = "reserve" /\ dpc' = "reply" /\ UNCHANGED <<cur, hpc, aborted>> /\ ~aborted
      /\ cur \in Client /\ port[cur] = NoPort /\ port \in [Client -> Ports \cup {Overflow, NoPort}]
      /\ status \in [Ports -> BOOLEAN]
  BY DEF AccountInv, PortInv, TypeOK, Unlent, GetAvailablePort, DispatcherMoves, handlerVars
<1>2. PICK p : port' = [port EXCEPT ![cur] = p] /\ p # NoPort
                /\ \/ p \in Ports /\ ~status[p] /\ status' = [status EXCEPT ![p] = TRUE]
                   \/ p \notin Ports /\ UNCHANGED status /\ \A q \in Ports : status[q]
  BY NoPortInArray DEF GetAvailablePort, Overflow, NoPort
<1>3. port'[cur] = p /\ \A d \in Client \ {cur} : port'[d] = port[d]
  BY <1>1, <1>2
<1>4. /\ Has(cur)' <=> p \in Ports
      /\ ~Has(cur) /\ \A d \in Client \ {cur} : Has(d)' = Has(d)
  BY <1>1, <1>3, NoPortInArray DEF Has, Holds, Reserving
<1>5. Pending = NoClient
  BY <1>1 DEF Pending
<1>6. {d \in Client : port[d] # NoPort}' = {d \in Client : port[d] # NoPort} \cup {cur}
      /\ cur \notin {d \in Client : port[d] # NoPort}
  BY <1>1, <1>2, <1>3
<1>7. Lost' = Lost
  <2> SUFFICES ASSUME NEW q \in Ports PROVE (q \in Lost)' <=> q \in Lost
    BY DEF Lost
  <2>1. CASE q = p
    BY <1>1, <1>2, <1>3, <1>4, <2>1 DEF Lost
  <2>2. CASE q # p
    <3>1. status'[q] = status[q]
      BY <1>1, <1>2, <2>2
    <3>2. \A d \in Client : (Has(d)' /\ port'[d] = q) <=> (Has(d) /\ port[d] = q)
      BY <1>3, <1>4, <2>2
    <3> QED BY <1>1, <3>1, <3>2 DEF Lost
  <2> QED BY <2>1, <2>2
<1>8. CASE p \in Ports
  <2>1. Lease!Available(p)
    <3>1. p \notin Lost
      BY <1>2, <1>8 DEF Lost
    <3>2. \A d \in Client : Has(d) => port[d] # p
      BY <1>2, <1>8 DEF AccountInv, PortInv, Marked, Has
    <3>3. \A d \in Client : Lent[d] # p
      BY <1>8, <3>2, NoPortInArray DEF Lent
    <3> QED BY <3>1, <3>3 DEF Lease!Available
  <2>2. Lent' = [Lent EXCEPT ![cur] = p] /\ Pending' = cur
    BY <1>1, <1>3, <1>4, <1>8 DEF Lent, Pending
  <2>3. Lease!Reserve(cur, p)
    BY <1>1, <1>5, <1>6, <1>7, <2>1, <2>2 DEF Lease!Reserve
  <2> QED BY <1>1, <1>8, <2>3 DEF Lease!Next
<1>9. CASE p \notin Ports
  <2>1. \A q \in Ports : ~Lease!Available(q)
    <3> SUFFICES ASSUME NEW q \in Ports, q \notin Lost PROVE \E d \in Client : Lent[d] = q
      BY DEF Lease!Available
    <3>1. PICK d \in Client : Has(d) /\ port[d] = q
      BY <1>1, <1>2, <1>9 DEF Lost
    <3> QED BY <3>1 DEF Lent
  <2>2. Lent' = Lent /\ Pending' = Pending
    BY <1>1, <1>3, <1>4, <1>5, <1>9 DEF Lent, Pending
  <2>3. PICK c \in Client : c = cur
    BY <1>1
  <2>4. Lease!Refuse(c)
    BY <1>1, <1>5, <1>6, <1>7, <2>1, <2>2, <2>3 DEF Lease!Refuse
  <2> QED BY <2>4 DEF Lease!Next
<1> QED BY <1>8, <1>9

\* The reservation is settled: its client was told, or could not be.
LEMMA SettleLease ==
  ASSUME AccountInv, SendPort \/ SendPortFails
  PROVE  [Lease!Next]_(Lease!vars)
<1>1. /\ dpc = "reply" /\ dpc' \in {"close", "destroy"} /\ cur \in Client
      /\ UNCHANGED <<status, port, cur, hpc, aborted>> /\ ~aborted
  BY DEF AccountInv, PortInv, TypeOK, SendPort, SendPortFails, DispatcherMoves, handlerVars
<1>2. \A d \in Client \ {cur} : Has(d)' = Has(d)
  BY <1>1 DEF Has, Holds, Reserving
<1>3. Pending' = NoClient
  BY <1>1 DEF Pending
<1>4. CASE ~Has(cur)
  <2>1. ~Has(cur)' /\ Pending = NoClient
    BY <1>1, <1>4 DEF Has, Holds, Reserving, Pending
  <2>2. \A d \in Client : Has(d)' = Has(d)
    BY <1>1, <1>2, <1>4, <2>1 DEF Has
  <2>3. UNCHANGED <<status, port, aborted>> /\ Pending' = Pending
    BY <1>1, <1>3, <2>1
  <2>4. UNCHANGED Lease!vars
    BY <2>2, <2>3, NothingLent
  <2> QED BY <2>4
<1>5. CASE Has(cur) /\ dpc' = "close"
  <2>1. Has(cur)' /\ Pending = cur
    BY <1>1, <1>5 DEF Has, Holds, Reserving, Pending
  <2>2. Lent' = Lent /\ Lost' = Lost
    BY <1>1, <1>2, <1>5, <2>1 DEF Lent, Lost
  <2>3. Lease!Grant
    BY <1>1, <1>3, <2>1, <2>2 DEF Lease!Grant
  <2> QED BY <2>3 DEF Lease!Next
<1>6. CASE Has(cur) /\ dpc' = "destroy"
  <2>1. hpc[cur] = "none"
    BY <1>1 DEF AccountInv, PortInv, Unserved
  <2>2. ~Has(cur)' /\ Pending = cur
    BY <1>1, <1>6, <2>1 DEF Has, Holds, Reserving, Pending
  <2>3. Lent' = [Lent EXCEPT ![cur] = NoPort] /\ Lent[cur] = port[cur]
    BY <1>1, <1>2, <1>6, <2>2 DEF Lent
  <2>4. port[cur] \in Ports /\ status[port[cur]]
    BY <1>1, <1>6 DEF Has, AccountInv, PortInv, Marked
  <2>5. \A d \in Client \ {cur} : Has(d) => port[d] # port[cur]
    BY <1>1, <1>6 DEF Has, AccountInv, PortInv, PortsExclusive
  <2>6. Lost' = Lost \cup {port[cur]}
    BY <1>1, <1>2, <1>6, <2>2, <2>4, <2>5 DEF Lost
  <2>7. Lease!Lose
    BY <1>1, <1>3, <2>2, <2>3, <2>6 DEF Lease!Lose
  <2> QED BY <2>7 DEF Lease!Next
<1> QED BY <1>1, <1>4, <1>5, <1>6

\* The other steps of the dispatcher: what it knew of a port its thread knows.
LEMMA DispatchLease ==
  ASSUME AccountInv, Dispatch
  PROVE  [Lease!Next]_(Lease!vars)
<1>1. CASE GetAvailablePort
  BY <1>1, ReserveLease
<1>2. CASE SendPort \/ SendPortFails
  BY <1>2, SettleLease
<1>3. CASE ~(GetAvailablePort \/ SendPort \/ SendPortFails)
  <2>1. UNCHANGED <<status, port, aborted>> /\ dpc # "reply" /\ dpc' # "reply"
    BY <1>3 DEF Dispatch, AcceptRequest, ReadRequest, ReadFails, CloseSocket, Spawn, Destroy, DispatcherMoves
  <2>2. \A d \in Releasing : port[d] \notin Ports
    BY NoPortInArray DEF AccountInv, PortInv, Portless
  <2>3. \A d \in Client : port[d] \in Ports => (Holds(d) \/ Reserving(d))' = (Holds(d) \/ Reserving(d))
    <3>1. CASE Spawn
      <4>1. /\ dpc = "spawn" /\ cur' = cur /\ cur \in Client /\ hpc[cur] = "none"
            /\ dpc' = IF cur \in Releasing THEN "close" ELSE "destroy"
            /\ hpc' = [hpc EXCEPT ![cur] = IF cur \in Releasing THEN "open" ELSE "start"]
            /\ hpc \in [Client -> {"none", "start", "listening", "accepting", "serving", "replied",
                                   "closing", "closed", "open", "done"}]
        BY <3>1 DEF Spawn, DispatcherMoves, AccountInv, PortInv, TypeOK, Unserved
      <4>2. \A d \in Client \ {cur} : hpc'[d] = hpc[d]
        BY <4>1
      <4>3. cur \notin Releasing => hpc'[cur] = "start"
        BY <4>1
      <4> QED BY <2>2, <4>1, <4>2, <4>3 DEF Holds, Reserving
    <3>2. CASE ~Spawn
      <4>1. /\ UNCHANGED hpc
            /\ \/ dpc \in {"accept", "read", "destroy"} /\ dpc' \in {"read", "reserve", "destroy", "accept"}
               \/ dpc = "read" /\ dpc' = "spawn" /\ cur' = cur /\ cur \in Releasing
               \/ /\ dpc = "close" /\ cur' = cur
                  /\ dpc' = IF cur \in Releasing THEN "destroy" ELSE "spawn"
        BY <1>3, <3>2 DEF Dispatch, AcceptRequest, ReadRequest, ReadFails, CloseSocket, Destroy,
           DispatcherMoves, handlerVars
      <4> QED BY <2>2, <4>1 DEF Holds, Reserving
    <3> QED BY <3>1, <3>2
  <2>4. \A d \in Client : Has(d)' = Has(d)
    BY <2>1, <2>3 DEF Has
  <2>5. Pending' = Pending
    BY <2>1 DEF Pending
  <2>6. UNCHANGED Lease!vars
    BY <2>1, <2>4, <2>5, NothingLent
  <2> QED BY <2>6
<1> QED BY <1>1, <1>2, <1>3

\* Every step of the threads and the clients is a step of PortLease or none: for
\* any numbers of clients, ports and descriptors.
THEOREM DispatcherKeepsPromise == Spec => LeaseKept
<1>1. AccountInv /\ [Next]_vars => [Lease!Next]_(Lease!vars)
  <2> SUFFICES ASSUME AccountInv, [Next]_vars PROVE [Lease!Next]_(Lease!vars)
    OBVIOUS
  <2>1. ASSUME UNCHANGED <<status, port, dpc, cur, hpc, aborted>> PROVE UNCHANGED Lease!vars
    <3>1. \A d \in Client : Has(d)' = Has(d)
      BY <2>1 DEF Has, Holds, Reserving
    <3>2. Pending' = Pending
      BY <2>1 DEF Pending, Has, Holds, Reserving
    <3> QED BY <2>1, <3>1, <3>2, NothingLent
  <2>2. ASSUME NEW c \in Client, ClientStep(c) \/ ClientDies(c)
        PROVE  UNCHANGED <<status, port, dpc, cur, hpc, aborted>>
    BY <2>2 DEF ClientStep, ClientConnects, ClientSends, ClientConnectsToPort, ClientReset, ClientDies,
       dispatcherVars, handlerVars
  <2>3. CASE UNCHANGED vars
    BY <2>1, <2>3 DEF vars, dispatcherVars, handlerVars
  <2> QED BY <2>1, <2>2, <2>3, DispatchLease, HandleLease DEF Next
<1> QED BY <1>1, InitLease, InitAccounts, NextAccounts, PTL DEF Spec, LeaseKept, Lease!Spec
=============================================================================
