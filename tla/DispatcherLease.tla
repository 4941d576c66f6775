---------------------------- MODULE DispatcherLease ----------------------------
(***************************************************************************)
(* Dispatcher implements PortLease.  The array says only that a port is    *)
(* reserved; for whom is known to the dispatcher until it has started the  *)
(* handler, and to the handler until it clears the mark.  Nobody knows it  *)
(* of a port that was reserved for a client who could not be told.         *)
(***************************************************************************)
EXTENDS Dispatcher

\* Who knows of the port that was reserved for c.
Has(c) == ~aborted /\ port[c] \in Ports /\ (Holds(c) \/ Reserving(c))

Lent == [c \in Client |-> IF Has(c) THEN port[c] ELSE NoPort]

Pending == IF dpc = "reply" /\ cur \in Client /\ Has(cur) THEN cur ELSE NoClient

Lost == {p \in Ports : ~aborted /\ status[p] /\ \A c \in Client : ~(Has(c) /\ port[c] = p)}

Lease == INSTANCE PortLease WITH
  Port <- Ports, lent <- Lent, pending <- Pending, lost <- Lost,
  answered <- {c \in Client : port[c] # NoPort}, up <- ~aborted

\* LeaseKept: every step of the dispatcher, the handlers and the clients maps to a
\* step of PortLease or to none: whoever writes the array, whichever descriptors
\* are closed twice and whoever goes away, a client is lent one port that no other
\* has, is turned away only when none is left, and keeps it until it is given back;
\* a port is lost only with a client that could not be told, and then for good.
LeaseKept == Lease!Spec
=============================================================================
