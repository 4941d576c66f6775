------------------------------ MODULE SnapshotUse ------------------------------
(***************************************************************************)
(* Snapshots together with the createDisk_handler threads, which ask for   *)
(* the latest snapshot and only then make a volume of it, while makers     *)
(* trim the list and delete what they trim.                                *)
(*                                                                         *)
(* latest() looks whether the list is empty and then reads its last        *)
(* element, in two accesses.  When the list has become empty in between    *)
(* the read is past its end: there is no usable id in what it yields.      *)
(***************************************************************************)
EXTENDS Snapshots

CONSTANT Creator  \* the createDisk_handler threads of a behaviour

NoSnapshot == "none"

VARIABLES
  upc,         \* upc[c]: where creator c is
  snapshotId,  \* snapshotId[c]: what latest() has given it
  left         \* left[c]: the erasures that come before its snapshot is the front

useVars == <<upc, snapshotId, left>>
allVars == <<vars, useVars>>

CreatorMoves(c, p, q) == upc[c] = p /\ upc' = [upc EXCEPT ![c] = q]

\* createDisk_handler goes on without an id: create-volume will fail.
FindsNone(c) ==
  /\ up /\ m_snapshots = <<>>
  /\ CreatorMoves(c, "off", "over") \/ CreatorMoves(c, "found", "over")
  /\ UNCHANGED <<vars, snapshotId, left>>

FindsSome(c) ==
  /\ up /\ m_snapshots # <<>>
  /\ CreatorMoves(c, "off", "found")
  /\ UNCHANGED <<vars, snapshotId, left>>

ReadLatest(c) ==
  /\ m_snapshots # <<>>
  /\ CreatorMoves(c, "found", "holds")
  /\ snapshotId' = [snapshotId EXCEPT ![c] = m_snapshots[Len(m_snapshots)]]
  /\ left' = [left EXCEPT ![c] = Len(m_snapshots)]
  /\ UNCHANGED vars

\* create-volume has read the id; what comes of it is in Provision.
CreateVolume(c) ==
  /\ CreatorMoves(c, "holds", "over")
  /\ snapshotId' = [snapshotId EXCEPT ![c] = NoSnapshot]
  /\ left' = [left EXCEPT ![c] = 0]
  /\ UNCHANGED vars

Use(c) == FindsNone(c) \/ FindsSome(c) \/ ReadLatest(c) \/ CreateVolume(c)

\* The makers, the clock and start-up; an erasure is counted.
SnapshotStep ==
  /\ Next /\ (up' \/ ~up)
  /\ left' = [c \in Creator |->
                IF left[c] > 0 /\ Len(m_snapshots') < Len(m_snapshots) THEN left[c] - 1 ELSE left[c]]
  /\ UNCHANGED <<upc, snapshotId>>

CrashBoth ==
  /\ Crash
  /\ upc' = [c \in Creator |-> IF upc[c] = "off" THEN "off" ELSE "over"]
  /\ snapshotId' = [c \in Creator |-> NoSnapshot]
  /\ left' = [c \in Creator |-> 0]

UseInit ==
  /\ Init
  /\ upc = [c \in Creator |-> "off"]
  /\ snapshotId = [c \in Creator |-> NoSnapshot]
  /\ left = [c \in Creator |-> 0]

UseNext == SnapshotStep \/ CrashBoth \/ \E c \in Creator : Use(c)

UseSpec == UseInit /\ [][UseNext]_allVars

-----------------------------------------------------------------------------
(* Properties.                                                             *)

\* LatestUsable: the snapshot that a creator has been given is deleted before it
\* is used only when as many erasures have come meanwhile as there were snapshots
\* in the list; until the daemon was stopped and has loaded ids that are gone.
LatestUsable ==
  crashes = 0 =>
    \A c \in Creator :
      (upc[c] = "holds" /\ ec2[snapshotId[c]] = "deleted") => left[c] = 0
=============================================================================
