----------------------------- MODULE MCDispatcher -----------------------------
(* Values for the constants of Dispatcher, and the symmetry of its clients. *)
EXTENDS DispatcherLease, TLC

CONSTANTS c1, c2, c3

ThreeFds == 1 .. 3
FourFds == 1 .. 4

Symmetry == Permutations(Client \ Releasing)
=============================================================================
