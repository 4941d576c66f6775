----------------------------- MODULE MCSnapshots -----------------------------
(* Values for the constants of Snapshots, and the symmetry of its makers. *)
EXTENDS SnapshotUse, TLC

CONSTANTS s1

NoneStored == <<>>
OneStored == <<s1>>

MakerSymmetry == Permutations(Maker)
=============================================================================
