------------------------------- MODULE PortLease -------------------------------
(***************************************************************************)
(* What the dispatcher promises of its ports, without threads, sockets or  *)
(* descriptors.  A client asks once.  It is reserved a port that nobody    *)
(* else has, or is turned away when there is none left.  One reservation   *)
(* is settled before the next is made: the port is granted to its client,  *)
(* who gives it back, or it is lost for good with a client that could not  *)
(* be told.  A port that was granted is never lost.                        *)
(***************************************************************************)
CONSTANTS
  Client,    \* those who ask
  NoClient,  \* no client
  Port,      \* the ports
  NoPort     \* no port

VARIABLES
  lent,      \* lent[c]: the port reserved for c or granted to it
  pending,   \* the client whose reservation is not settled
  lost,      \* the ports that are lost
  answered,  \* the clients that were reserved a port, or turned away
  up         \* does the process live?

vars == <<lent, pending, lost, answered, up>>

Available(p) == p \notin lost /\ \A c \in Client : lent[c] # p

Init ==
  /\ lent = [c \in Client |-> NoPort]
  /\ pending = NoClient
  /\ lost = {} /\ answered = {}
  /\ up = TRUE

Reserve(c, p) ==
  /\ up /\ pending = NoClient /\ c \notin answered
  /\ Available(p)
  /\ lent' = [lent EXCEPT ![c] = p] /\ pending' = c
  /\ answered' = answered \cup {c}
  /\ UNCHANGED <<lost, up>>

Refuse(c) ==
  /\ up /\ pending = NoClient /\ c \notin answered
  /\ \A p \in Port : ~Available(p)
  /\ answered' = answered \cup {c}
  /\ UNCHANGED <<lent, pending, lost, up>>

Grant ==
  /\ up /\ pending \in Client /\ pending' = NoClient
  /\ UNCHANGED <<lent, lost, answered, up>>

Lose ==
  /\ up /\ pending \in Client /\ pending' = NoClient
  /\ lost' = lost \cup {lent[pending]}
  /\ lent' = [lent EXCEPT ![pending] = NoPort]
  /\ UNCHANGED <<answered, up>>

GiveBack(c) ==
  /\ up /\ c # pending /\ lent[c] \in Port
  /\ lent' = [lent EXCEPT ![c] = NoPort]
  /\ UNCHANGED <<pending, lost, answered, up>>

\* The process ends, and what it had lent or lost ends with it.
Stop ==
  /\ up /\ up' = FALSE
  /\ lent' = [c \in Client |-> NoPort]
  /\ pending' = NoClient /\ lost' = {}
  /\ UNCHANGED answered

Next ==
  \/ \E c \in Client : Refuse(c) \/ GiveBack(c) \/ \E p \in Port : Reserve(c, p)
  \/ Grant \/ Lose \/ Stop

Spec == Init /\ [][Next]_vars
=============================================================================
