------------------------------- MODULE Snapshots -------------------------------
(***************************************************************************)
(* The snapshots of the target file system: the list m_snapshots, the file *)
(* it is written to, and the createSnapshot_handler threads that main      *)
(* starts.  Unlike the volumes file, this one is written without a lock.   *)
(*                                                                         *)
(* A snapshot is named by the thread that makes it; those of the file the  *)
(* daemon starts with have names of their own.  One access to the vector   *)
(* is one step.  A stream keeps its records until it is closed, and then   *)
(* writes them from the beginning of the file, which it truncated when it  *)
(* was opened; the lines of two snapshots have the same length.            *)
(*                                                                         *)
(* EC2 is external.  The loop that waits while a snapshot is "pending"     *)
(* ends at any other answer, also at the error text of a call that failed, *)
(* so it may end at any time.                                              *)
(***************************************************************************)
EXTENDS Integers, Sequences, FiniteSets

CONSTANTS
  Maker,      \* the createSnapshot_handler threads of a behaviour
  Stored,     \* the snapshots in the file at the beginning, oldest first
  MaxNumber,  \* conf.SnapshotMaxNumber
  Freq,       \* conf.SnapshotFrequency, in ticks of the clock
  MaxTime,    \* bound: the last tick
  MaxCrashes, \* bound: how often the daemon stops abruptly
  OpenMayFail \* may the file be impossible to open?

OldId == {Stored[i] : i \in DOMAIN Stored}
Snapshot == Maker \cup OldId

ASSUME StoredAssumption ==
  /\ Stored \in Seq(OldId)
  /\ OldId \cap Maker = {}
  /\ \A i, j \in DOMAIN Stored : Stored[i] = Stored[j] => i = j
  /\ Len(Stored) <= MaxNumber
ASSUME MakerAssumption == IsFiniteSet(Maker)
ASSUME NumberAssumption ==
  MaxNumber \in Nat /\ Freq \in Nat /\ MaxTime \in Nat /\ MaxCrashes \in Nat
ASSUME OpenAssumption == OpenMayFail \in BOOLEAN

VARIABLES
  m_snapshots,         \* the list of ids, the latest last
  file,                \* the ids of the lines of the file
  snapshotsOpPending,  \* the flag shared by main and all makers
  up,                  \* is the daemon running?
  pc,                  \* pc[k]: where maker k is
  head,                \* head[k]: sId, the snapshot k is to delete
  buf,                 \* buf[k]: the lines in k's stream
  stamp,               \* stamp[s]: when s was made, written with its id
  now,                 \* the clock
  ec2,                 \* ec2[s]: whether s exists
  crashes              \* bound: abrupt stops so far

vars == <<m_snapshots, file, snapshotsOpPending, up, pc, head, buf, stamp, now, ec2, crashes>>

-----------------------------------------------------------------------------
Moves(k, p, q) == pc[k] = p /\ pc' = [pc EXCEPT ![k] = q]

\* latest_date: of an empty list it is long past.
LatestDate ==
  IF m_snapshots = <<>> THEN now - Freq ELSE stamp[m_snapshots[Len(m_snapshots)]]

TimeToSnapshot == now - LatestDate >= Freq

\* The lines b written over the beginning of f.
Overwritten(f, b) == b \o SubSeq(f, Len(b) + 1, Len(f))

\* delete-snapshot, which may fail.
Deletes(s) == ec2' = [ec2 EXCEPT ![s] = "deleted"] \/ UNCHANGED ec2

-----------------------------------------------------------------------------
(* main's loop, and start-up.                                              *)

StartMaker(k) ==
  /\ up /\ Moves(k, "off", "time")
  /\ Len(m_snapshots) < MaxNumber \/ ~snapshotsOpPending
  /\ TimeToSnapshot
  /\ snapshotsOpPending' = TRUE
  /\ UNCHANGED <<m_snapshots, file, up, head, buf, stamp, now, ec2, crashes>>

\* load(): one snapshot goes when there are too many; the file is not written.
Load ==
  /\ ~up /\ up' = TRUE
  /\ IF Len(file) > MaxNumber
     THEN m_snapshots' = Tail(file) /\ Deletes(Head(file))
     ELSE m_snapshots' = file /\ UNCHANGED ec2
  /\ UNCHANGED <<file, snapshotsOpPending, pc, head, buf, stamp, now, crashes>>

Crash ==
  /\ up /\ up' = FALSE
  /\ crashes < MaxCrashes /\ crashes' = crashes + 1
  /\ m_snapshots' = <<>> /\ snapshotsOpPending' = FALSE
  /\ pc' = [k \in Maker |-> IF pc[k] = "off" THEN "off" ELSE "done"]
  /\ buf' = [k \in Maker |-> <<>>]
  /\ UNCHANGED <<file, head, stamp, now, ec2>>

Tick ==
  /\ now < MaxTime /\ now' = now + 1
  /\ UNCHANGED <<m_snapshots, file, snapshotsOpPending, up, pc, head, buf, stamp, ec2, crashes>>

-----------------------------------------------------------------------------
(* create_snapshot.                                                        *)

\* Mutant of TakeTime: the time written is when the next snapshot is due.
TakeTimeDue(k) ==
  /\ Moves(k, "time", "call")
  /\ stamp' = [stamp EXCEPT ![k] = now + Freq]
  /\ UNCHANGED <<m_snapshots, file, snapshotsOpPending, up, head, buf, now, ec2, crashes>>

\* The time is taken before the call.
TakeTime(k) ==
  /\ Moves(k, "time", "call")
  /\ stamp' = [stamp EXCEPT ![k] = now]
  /\ UNCHANGED <<m_snapshots, file, snapshotsOpPending, up, head, buf, now, ec2, crashes>>

CallCreate(k) ==
  /\ \/ Moves(k, "call", "poll") /\ ec2' = [ec2 EXCEPT ![k] = "exists"]
     \/ Moves(k, "call", "clear") /\ UNCHANGED ec2
  /\ UNCHANGED <<m_snapshots, file, snapshotsOpPending, up, head, buf, stamp, now, crashes>>

PollEnds(k) ==
  /\ Moves(k, "poll", "push")
  /\ UNCHANGED <<m_snapshots, file, snapshotsOpPending, up, head, buf, stamp, now, ec2, crashes>>

-----------------------------------------------------------------------------
(* update_snapshots and write_to_file.                                     *)

PushBack(k) ==
  /\ Moves(k, "push", "check")
  /\ m_snapshots' = Append(m_snapshots, k)
  /\ UNCHANGED <<file, snapshotsOpPending, up, head, buf, stamp, now, ec2, crashes>>

\* Mutant of CheckSize: one too many is let through.
CheckSizeLate(k) ==
  /\ Moves(k, "check", IF Len(m_snapshots) > MaxNumber + 1 THEN "head" ELSE "open")
  /\ UNCHANGED <<m_snapshots, file, snapshotsOpPending, up, head, buf, stamp, now, ec2, crashes>>

CheckSize(k) ==
  /\ Moves(k, "check", IF Len(m_snapshots) > MaxNumber THEN "head" ELSE "open")
  /\ UNCHANGED <<m_snapshots, file, snapshotsOpPending, up, head, buf, stamp, now, ec2, crashes>>

\* Reading the front of an empty vector is undefined; HeadExists says it is
\* never done, and the guard leaves the step out.
ReadHead(k) ==
  /\ m_snapshots # <<>>
  /\ Moves(k, "head", "erase")
  /\ head' = [head EXCEPT ![k] = Head(m_snapshots)]
  /\ UNCHANGED <<m_snapshots, file, snapshotsOpPending, up, buf, stamp, now, ec2, crashes>>

\* Mutant of EraseHead: erasing goes on while there are too many.
EraseWhile(k) ==
  /\ m_snapshots # <<>>
  /\ Moves(k, "erase", IF Len(m_snapshots) > MaxNumber + 1 THEN "head" ELSE "delete")
  /\ m_snapshots' = Tail(m_snapshots)
  /\ UNCHANGED <<file, snapshotsOpPending, up, head, buf, stamp, now, ec2, crashes>>

\* Whatever is at the front by now.
EraseHead(k) ==
  /\ m_snapshots # <<>>
  /\ Moves(k, "erase", "delete")
  /\ m_snapshots' = Tail(m_snapshots)
  /\ UNCHANGED <<file, snapshotsOpPending, up, head, buf, stamp, now, ec2, crashes>>

\* Mutant of DeleteHead: the id is read after the erase.
DeleteNewHead(k) ==
  /\ Moves(k, "delete", "open")
  /\ IF m_snapshots = <<>> THEN UNCHANGED ec2 ELSE Deletes(Head(m_snapshots))
  /\ UNCHANGED <<m_snapshots, file, snapshotsOpPending, up, head, buf, stamp, now, crashes>>

DeleteHead(k) ==
  /\ Moves(k, "delete", "open")
  /\ Deletes(head[k])
  /\ UNCHANGED <<m_snapshots, file, snapshotsOpPending, up, head, buf, stamp, now, crashes>>

\* The file is truncated, or cannot be opened, which is logged.
OpenFile(k) ==
  /\ \/ Moves(k, "open", "copy") /\ file' = <<>>
     \/ OpenMayFail /\ Moves(k, "open", "clear") /\ UNCHANGED file
  /\ UNCHANGED <<m_snapshots, snapshotsOpPending, up, head, buf, stamp, now, ec2, crashes>>

CopyLines(k) ==
  /\ Moves(k, "copy", "close")
  /\ buf' = [buf EXCEPT ![k] = m_snapshots]
  /\ UNCHANGED <<m_snapshots, file, snapshotsOpPending, up, head, stamp, now, ec2, crashes>>

CloseFile(k) ==
  /\ Moves(k, "close", "clear")
  /\ file' = Overwritten(file, buf[k])
  /\ buf' = [buf EXCEPT ![k] = <<>>]
  /\ UNCHANGED <<m_snapshots, snapshotsOpPending, up, head, stamp, now, ec2, crashes>>

ClearFlag(k) ==
  /\ Moves(k, "clear", "done")
  /\ snapshotsOpPending' = FALSE
  /\ UNCHANGED <<m_snapshots, file, up, head, buf, stamp, now, ec2, crashes>>

Make(k) ==
  \/ TakeTime(k) \/ CallCreate(k) \/ PollEnds(k)
  \/ PushBack(k) \/ CheckSize(k) \/ ReadHead(k) \/ EraseHead(k) \/ DeleteHead(k)
  \/ OpenFile(k) \/ CopyLines(k) \/ CloseFile(k) \/ ClearFlag(k)

-----------------------------------------------------------------------------
\* The daemon has loaded a file that is not too long.
Init ==
  /\ m_snapshots = Stored /\ file = Stored
  /\ snapshotsOpPending = FALSE /\ up = TRUE
  /\ pc = [k \in Maker |-> "off"]
  /\ head = [k \in Maker |-> k]
  /\ buf = [k \in Maker |-> <<>>]
  /\ stamp = [s \in Snapshot |-> 0] /\ now = 0
  /\ ec2 = [s \in Snapshot |-> IF s \in Maker THEN "absent" ELSE "exists"]
  /\ crashes = 0

Next == Load \/ Crash \/ Tick \/ \E k \in Maker : StartMaker(k) \/ Make(k)

Spec == Init /\ [][Next]_vars

-----------------------------------------------------------------------------
(* Properties.                                                             *)

TypeOK ==
  /\ m_snapshots \in Seq(Snapshot) /\ file \in Seq(Snapshot)
  /\ snapshotsOpPending \in BOOLEAN /\ up \in BOOLEAN
  /\ pc \in [Maker -> {"off", "time", "call", "poll", "push", "check", "head", "erase",
                       "delete", "open", "copy", "close", "clear", "done"}]
  /\ head \in [Maker -> Snapshot]
  /\ buf \in [Maker -> Seq(Snapshot)]
  /\ stamp \in [Snapshot -> 0 .. MaxTime] /\ now \in 0 .. MaxTime
  /\ ec2 \in [Snapshot -> {"absent", "exists", "deleted"}]
  /\ crashes \in 0 .. MaxCrashes

\* The makers that have added their snapshot and may still take one away.
Trimming == {k \in Maker : pc[k] \in {"check", "head", "erase"}}

\* Bounded: however the makers that run at once overtake each other, the list is
\* too long only by those that have not come to their own check and erase yet,
\* unless the daemon was stopped and has loaded what one of them had written.
Bounded == crashes = 0 => Len(m_snapshots) <= MaxNumber + Cardinality(Trimming)

\* HeadExists: a maker that has found the list too long finds a front to read
\* and to erase, though others have erased meanwhile.
HeadExists == \A k \in Maker : pc[k] \in {"head", "erase"} => m_snapshots # <<>>

\* ListedExist: no listed snapshot has been deleted, although the id that is
\* deleted and the record that is erased are read from the front at two times;
\* unless the daemon was stopped between a deletion and the write of the file.
ListedExist == crashes = 0 => \A i \in DOMAIN m_snapshots : ec2[m_snapshots[i]] # "deleted"
=============================================================================
