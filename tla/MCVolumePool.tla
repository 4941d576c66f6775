----------------------------- MODULE MCVolumePool -----------------------------
(* Values for the constants of VolumePool, and the symmetry of its clients. *)
EXTENDS VolumePoolLife, TLC

CONSTANTS v1, v2, v3

NoneLoaded == <<>>
OneLoaded == <<v1>>
TwoLoaded == <<v1, v2>>

ClientSymmetry == Permutations(Client)
=============================================================================
