------------------------------ MODULE MCSyncPool ------------------------------
(* Values for the constants of SyncPool, and the symmetry of main's passes. *)
EXTENDS SyncPool, TLC

CONSTANTS v1, v2

OneLoaded == <<v1>>
TwoLoaded == <<v1, v2>>

PassSymmetry == Permutations(Periodic)
=============================================================================
