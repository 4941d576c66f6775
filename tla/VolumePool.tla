------------------------------ MODULE VolumePool ------------------------------
(***************************************************************************)
(* The pool of EBS volumes that volumesd keeps ready: the list m_volumes,  *)
(* the file it is written to, and every thread that works on them.         *)
(*                                                                         *)
(* Threads of the daemon: main (start-up and the loop that maintains the   *)
(* number of idle volumes), one createDisk_handler per Creator, one        *)
(* removeDisk_handler per Remover, one clientDiskRelease_handler per       *)
(* Releaser, and for each client c the clientDiskAquire_handler that       *)
(* serves it, which is named c too.  A thread id is one thread's lifetime. *)
(* The clients, EC2 and the local mount table are external: they are       *)
(* modelled from the calls the daemon and volumesd-client make.            *)
(*                                                                         *)
(* What is atomic.  One access to m_volumes (a scan, a read of one record, *)
(* a push_back, an erase, an assignment) is one step, though no lock       *)
(* protects the vector: the tearing of a single access is not modelled,    *)
(* every interleaving of whole accesses is.  write_to_file runs under the  *)
(* mutex m in three steps: truncate, iterate, flush.                       *)
(*                                                                         *)
(* A mount point stands for the volume mounted on it: the code unmounts    *)
(* the path of the record, and two volumes never share one here.  How      *)
(* creators draw mount points is in Provision.                             *)
(***************************************************************************)
EXTENDS Integers, Sequences, FiniteSets

CONSTANTS
  Volume,       \* the EBS volumes that may exist in a behaviour
  NoVolume,     \* no volume: the empty id
  Client,       \* machines that run volumesd-client, once each
  Creator,      \* the createDisk_handler threads of a behaviour
  Remover,      \* its removeDisk_handler threads
  Releaser,     \* its clientDiskRelease_handler threads
  MaxIdleDisk,  \* conf.MaxIdleDisk
  Loaded,       \* the volumes found idle and mounted when the daemon starts
  MaxCrashes,   \* bound: how often the daemon stops abruptly
  MayReboot,    \* may the machine restart with it, and lose its mounts?
  OpenMayFail   \* may the volumes file be impossible to open?

Here == "localhost"                      \* the daemon's own instance
NoPlace == "none"                        \* update's default t_ip, the empty string
Main == "main"
Instance == {Here} \cup Client
Taker == Client \cup Remover             \* the callers of Volumes::release
Worker == Taker \cup Creator \cup Releaser
Thread == Worker \cup {Main}

ASSUME VolumeAssumption == NoVolume \notin Volume
ASSUME ThreadAssumption ==
  /\ Client \cap (Remover \cup Creator \cup Releaser) = {}
  /\ Remover \cap (Creator \cup Releaser) = {}
  /\ Creator \cap Releaser = {}
  /\ Main \notin Worker
ASSUME InstanceAssumption ==
  {Here, NoPlace, "nowhere", "absent", "available", "detaching", "deleted"} \cap Client = {}
ASSUME LoadedAssumption ==
  /\ Loaded \in Seq(Volume)
  /\ \A i, j \in DOMAIN Loaded : Loaded[i] = Loaded[j] => i = j
ASSUME BoundAssumption ==
  /\ MaxIdleDisk \in Nat
  /\ MaxCrashes \in Nat
  /\ MayReboot \in BOOLEAN
  /\ OpenMayFail \in BOOLEAN

VARIABLES
  m_volumes,          \* the list, records [id, status, attachedTo]
  volumeFile,         \* the records the file holds
  inProgressVolumes,  \* the shared counter, incremented and decremented unlocked
  pc,                 \* pc[t]: where thread t is
  vid,                \* vid[t]: the volume thread t works on
  reg,                \* reg[t]: the index or the counter value t has read
  wr,                 \* wr[t]: how far t is with write_to_file
  buf,                \* buf[t]: what t has copied to its stream and not flushed
  ebs,                \* ebs[v]: EC2's state of v, or the instance it is attached to
  mountedAt,          \* mountedAt[v]: the instance that mounts v
  cli,                \* cli[c]: where the client program is
  reply,              \* reply[c]: the volume c was sent
  ack,                \* ack[c]: what c answered, or "closed" when it went away
  writeFailed,        \* has the last write since the last load failed to open the file?
  crashes             \* bound: abrupt stops so far

listVars == <<m_volumes, wr>>
fileVars == <<volumeFile, buf, writeFailed>>
ec2Vars == <<ebs, mountedAt>>
clientVars == <<cli, reply, ack>>
localVars == <<vid, reg>>
vars == <<listVars, fileVars, ec2Vars, clientVars, localVars,
          inProgressVolumes, pc, crashes>>

-----------------------------------------------------------------------------
(* Data.                                                                   *)

Status == {"idle", "inprogress", "used", "failedToDetach"}
Record == [id : Volume, status : Status, attachedTo : Instance]
EbsState == {"absent", "available", "detaching", "deleted"} \cup Instance

Ids(s) == {s[i].id : i \in DOMAIN s}
IdleAt(s) == {i \in DOMAIN s : s[i].status = "idle"}
Idle(s) == {s[i].id : i \in IdleAt(s)}

\* The position of the record update and remove find: the first with that id.
IsFirst(s, v, i) == s[i].id = v /\ \A j \in 1 .. i - 1 : s[j].id # v

\* s without its first record of v.
Erased(s, v) ==
  IF v \notin Ids(s) THEN s
  ELSE LET i == CHOOSE k \in DOMAIN s : IsFirst(s, v, k)
       IN [j \in 1 .. Len(s) - 1 |-> IF j < i THEN s[j] ELSE s[j + 1]]

\* Mutant of Updated: the place is set even when the caller passes none.
UpdatedPlace(s, v, st, at) ==
  [i \in DOMAIN s |->
     IF IsFirst(s, v, i) THEN [id |-> v, status |-> st, attachedTo |-> at] ELSE s[i]]

\* s with status st for v, and place at when the caller passes one.
Updated(s, v, st, at) ==
  [i \in DOMAIN s |->
     IF IsFirst(s, v, i)
     THEN [id |-> v, status |-> st,
           attachedTo |-> IF at = NoPlace THEN s[i].attachedTo ELSE at]
     ELSE s[i]]

IdleRecord(v) == [id |-> v, status |-> "idle", attachedTo |-> Here]

-----------------------------------------------------------------------------
(* How a thread moves.                                                     *)

\* t goes from p to q; it does nothing else before its write is finished.
Moves(t, p, q) == pc[t] = p /\ wr[t] = "no" /\ pc' = [pc EXCEPT ![t] = q]

\* t changes the list, and must write it out before it goes on.
Stores(t, s) == m_volumes' = s /\ wr' = [wr EXCEPT ![t] = "due"]

\* update(): an unlisted volume changes and writes nothing.
UpdatesStatus(t, st, at) ==
  IF vid[t] \in Ids(m_volumes)
  THEN Stores(t, Updated(m_volumes, vid[t], st, at))
  ELSE UNCHANGED listVars

\* delete-volume: only EC2's "available" volumes can go; any call may fail.
Deletes(v) ==
  /\ \/ v \in Volume /\ ebs[v] = "available" /\ ebs' = [ebs EXCEPT ![v] = "deleted"]
     \/ UNCHANGED ebs
  /\ UNCHANGED mountedAt

\* detach-volume by instance at: EC2 starts to detach v, or refuses.
Detaches(v) == v \in Volume /\ ebs[v] \in Instance /\ ebs' = [ebs EXCEPT ![v] = "detaching"]
-----------------------------------------------------------------------------
(* write_to_file, under the mutex m.                                       *)

Unlocked == \A t \in Thread : wr[t] \notin {"open", "copied"}

\* Mutant of OpenFile: write_to_file without the lock.
OpenFileUnlocked(t) ==
  /\ wr[t] = "due"
  /\ wr' = [wr EXCEPT ![t] = "open"]
  /\ volumeFile' = <<>>
  /\ UNCHANGED <<m_volumes, buf, writeFailed, ec2Vars, clientVars, localVars,
                 inProgressVolumes, pc, crashes>>

OpenFile(t) ==
  /\ wr[t] = "due" /\ Unlocked
  /\ wr' = [wr EXCEPT ![t] = "open"]
  /\ volumeFile' = <<>>
  /\ UNCHANGED <<m_volumes, buf, writeFailed, ec2Vars, clientVars, localVars,
                 inProgressVolumes, pc, crashes>>

\* The file cannot be opened: the callers log it and go on.
OpenFails(t) ==
  /\ OpenMayFail /\ wr[t] = "due" /\ Unlocked
  /\ wr' = [wr EXCEPT ![t] = "no"]
  /\ writeFailed' = TRUE
  /\ UNCHANGED <<m_volumes, volumeFile, buf, ec2Vars, clientVars, localVars,
                 inProgressVolumes, pc, crashes>>

CopyRecords(t) ==
  /\ wr[t] = "open"
  /\ wr' = [wr EXCEPT ![t] = "copied"]
  /\ buf' = [buf EXCEPT ![t] = m_volumes]
  /\ UNCHANGED <<m_volumes, volumeFile, writeFailed, ec2Vars, clientVars, localVars,
                 inProgressVolumes, pc, crashes>>

CloseFile(t) ==
  /\ wr[t] = "copied"
  /\ wr' = [wr EXCEPT ![t] = "no"]
  /\ volumeFile' = buf[t]
  /\ buf' = [buf EXCEPT ![t] = <<>>]
  /\ writeFailed' = FALSE
  /\ UNCHANGED <<m_volumes, ec2Vars, clientVars, localVars, inProgressVolumes, pc, crashes>>

WriteStep(t) == OpenFile(t) \/ OpenFails(t) \/ CopyRecords(t) \/ CloseFile(t)

-----------------------------------------------------------------------------
(* Volumes::release, run by the thread that serves a client and by the one *)
(* that removes a surplus volume.                                          *)

\* get_idle_volume: the index of the first idle record.
GetIdleVolume(t) ==
  /\ Moves(t, "pick", "read")
  /\ \E i \in IdleAt(m_volumes) :
       /\ \A j \in IdleAt(m_volumes) : i <= j
       /\ reg' = [reg EXCEPT ![t] = i]
  /\ UNCHANGED <<listVars, fileVars, ec2Vars, clientVars, vid, inProgressVolumes, crashes>>

\* -1.  The client is told MaxDisksReached; a remover goes on with no volume.
NoIdleVolume(t) ==
  /\ Moves(t, "pick", IF t \in Client THEN "done" ELSE "del")
  /\ IdleAt(m_volumes) = {}
  /\ UNCHANGED <<listVars, fileVars, ec2Vars, clientVars, localVars, inProgressVolumes, crashes>>

\* The record is read by the index found before: past the end of the vector
\* there is the remains of an erased string, the id of no volume.
ReadRecord(t) ==
  /\ Moves(t, "read", "take")
  /\ vid' = [vid EXCEPT ![t] =
               IF reg[t] \in DOMAIN m_volumes THEN m_volumes[reg[t]].id ELSE NoVolume]
  /\ reg' = [reg EXCEPT ![t] = 0]
  /\ UNCHANGED <<listVars, fileVars, ec2Vars, clientVars, inProgressVolumes, crashes>>

\* Mutant of MarkTaken: update without its write_to_file.
MarkTakenUnsaved(t) ==
  /\ Moves(t, "take", "umount")
  /\ m_volumes' = Updated(m_volumes, vid[t], "inprogress", NoPlace)
  /\ UNCHANGED <<wr, fileVars, ec2Vars, clientVars, localVars, inProgressVolumes, crashes>>

MarkTaken(t) ==
  /\ pc[t] = "take" /\ wr[t] = "no" /\ pc' = [pc EXCEPT ![t] = "umount"]
  /\ UpdatesStatus(t, "inprogress", NoPlace)
  /\ UNCHANGED <<fileVars, ec2Vars, clientVars, localVars, inProgressVolumes, crashes>>

\* A failed umount is logged and reported as a success.
Umount(t) ==
  /\ Moves(t, "umount", "detach")
  /\ \/ /\ vid[t] # NoVolume /\ mountedAt[vid[t]] = Here
        /\ mountedAt' = [mountedAt EXCEPT ![vid[t]] = "nowhere"]
     \/ UNCHANGED mountedAt
  /\ UNCHANGED <<listVars, fileVars, ebs, clientVars, localVars, inProgressVolumes, crashes>>

DetachIssue(t) ==
  /\ Moves(t, "detach", "detaching")
  /\ Detaches(vid[t])
  /\ UNCHANGED <<listVars, fileVars, mountedAt, clientVars, localVars, inProgressVolumes, crashes>>

DetachRefused(t) ==
  /\ Moves(t, "detach", "undetached")
  /\ UNCHANGED <<listVars, fileVars, ec2Vars, clientVars, localVars, inProgressVolumes, crashes>>

\* Mutant of DetachDone: the volume is returned without waiting for EC2.
DetachDoneUnwaited(t) ==
  /\ Moves(t, "detaching", IF t \in Client THEN "send" ELSE "del")
  /\ UNCHANGED <<listVars, fileVars, ec2Vars, clientVars, localVars, inProgressVolumes, crashes>>

\* One of the polls reads "available"; the mount point goes, the id is returned.
DetachDone(t) ==
  /\ Moves(t, "detaching", IF t \in Client THEN "send" ELSE "del")
  /\ ebs[vid[t]] = "available"
  /\ UNCHANGED <<listVars, fileVars, ec2Vars, clientVars, localVars, inProgressVolumes, crashes>>

\* Mutant of DetachTimeout: the polls are not counted.
DetachPolled(t) ==
  /\ Moves(t, "detaching", "detaching")
  /\ UNCHANGED <<listVars, fileVars, ec2Vars, clientVars, localVars, inProgressVolumes, crashes>>

\* The fifteenth poll has passed; EC2 may still finish later.
DetachTimeout(t) ==
  /\ Moves(t, "detaching", "undetached")
  /\ UNCHANGED <<listVars, fileVars, ec2Vars, clientVars, localVars, inProgressVolumes, crashes>>

\* -3.  The caller gets no id: a client is told detachFailed, a remover goes
\* on with the empty id.
MarkUndetached(t) ==
  /\ Moves(t, "undetached", IF t \in Client THEN "done" ELSE "del")
  /\ UpdatesStatus(t, "failedToDetach", NoPlace)
  /\ vid' = [vid EXCEPT ![t] = NoVolume]
  /\ UNCHANGED <<fileVars, ec2Vars, clientVars, reg, inProgressVolumes, crashes>>

Release(t) ==
  \/ GetIdleVolume(t) \/ NoIdleVolume(t) \/ ReadRecord(t) \/ MarkTaken(t) \/ Umount(t)
  \/ DetachIssue(t) \/ DetachRefused(t) \/ DetachDone(t) \/ DetachTimeout(t)
  \/ MarkUndetached(t)

-----------------------------------------------------------------------------
(* clientDiskAquire_handler, once the client is connected to its port.     *)

SendVolume(c) ==
  /\ Moves(c, "send", "ack")
  /\ reply' = [reply EXCEPT ![c] = IF ack[c] = "closed" THEN @ ELSE vid[c]]
  /\ UNCHANGED <<listVars, fileVars, ec2Vars, cli, ack, localVars, inProgressVolumes, crashes>>

\* Mutant of AckOK: any answer is taken for a success.
AckAnswered(c) ==
  /\ Moves(c, "ack", "done")
  /\ ack[c] # "none"
  /\ UpdatesStatus(c, "used", c)
  /\ UNCHANGED <<fileVars, ec2Vars, clientVars, localVars, inProgressVolumes, crashes>>

AckOK(c) ==
  /\ Moves(c, "ack", "done")
  /\ ack[c] = "OK"
  /\ UpdatesStatus(c, "used", c)
  /\ UNCHANGED <<fileVars, ec2Vars, clientVars, localVars, inProgressVolumes, crashes>>

\* The client will delete the volume; here it only leaves the list.
AckFailed(c) ==
  /\ Moves(c, "ack", "done")
  /\ ack[c] = "FAILED"
  /\ Stores(c, Erased(m_volumes, vid[c]))
  /\ UNCHANGED <<fileVars, ec2Vars, clientVars, localVars, inProgressVolumes, crashes>>

\* The write or the read throws: the client closed, or the link broke.
ConnectionLost(c) ==
  /\ Moves(c, "ack", "del")
  /\ Stores(c, Erased(m_volumes, vid[c]))
  /\ UNCHANGED <<fileVars, ec2Vars, clientVars, localVars, inProgressVolumes, crashes>>

Aquire(c) == SendVolume(c) \/ AckOK(c) \/ AckFailed(c) \/ ConnectionLost(c)

\* del: by a handler that lost its client, and by a remover, which then
\* drops the record too.
DeleteTaken(t) ==
  /\ Moves(t, "del", IF t \in Client THEN "done" ELSE "drop")
  /\ Deletes(vid[t])
  /\ UNCHANGED <<listVars, fileVars, clientVars, localVars, inProgressVolumes, crashes>>

\* remove: by a remover and by clientDiskRelease_handler.  The list is
\* written whether or not it held the volume.
DropRecord(t) ==
  /\ t \in Remover \cup Releaser
  /\ Moves(t, "drop", "done")
  /\ Stores(t, Erased(m_volumes, vid[t]))
  /\ UNCHANGED <<fileVars, ec2Vars, clientVars, localVars, inProgressVolumes, crashes>>

\* clientDiskRelease_handler looks the volume up first.
CheckReleased(t) ==
  /\ Moves(t, "check", IF vid[t] \in Ids(m_volumes) THEN "drop" ELSE "done")
  /\ UNCHANGED <<listVars, fileVars, ec2Vars, clientVars, localVars, inProgressVolumes, crashes>>

-----------------------------------------------------------------------------
(* createDisk_handler and Volumes::acquire.                                *)

\* inProgressVolumes++ and -- are a load and a store.
LoadCounter(t) ==
  /\ \/ Moves(t, "inc", "incremented") \/ Moves(t, "dec", "decremented")
  /\ reg' = [reg EXCEPT ![t] = inProgressVolumes]
  /\ UNCHANGED <<listVars, fileVars, ec2Vars, clientVars, vid, inProgressVolumes, crashes>>

StoreCounter(t) ==
  /\ \/ Moves(t, "incremented", "create") /\ inProgressVolumes' = reg[t] + 1
     \/ Moves(t, "decremented", "done") /\ inProgressVolumes' = reg[t] - 1
  /\ reg' = [reg EXCEPT ![t] = 0]
  /\ UNCHANGED <<listVars, fileVars, ec2Vars, clientVars, vid, crashes>>

CreateVolume(t) ==
  /\ Moves(t, "create", "attach")
  /\ \E v \in Volume :
       /\ ebs[v] = "absent"
       /\ ebs' = [ebs EXCEPT ![v] = "available"]
       /\ vid' = [vid EXCEPT ![t] = v]
  /\ UNCHANGED <<listVars, fileVars, mountedAt, clientVars, reg, inProgressVolumes, crashes>>

\* No snapshot, or create-volume fails: the error text is polled as an id.
CreateFails(t) ==
  /\ Moves(t, "create", "spin")
  /\ UNCHANGED <<listVars, fileVars, ec2Vars, clientVars, localVars, inProgressVolumes, crashes>>

\* A poll whose error text happens to contain "available" ends the loop.
CreateMisread(t) ==
  /\ Moves(t, "spin", "attach")
  /\ UNCHANGED <<listVars, fileVars, ec2Vars, clientVars, localVars, inProgressVolumes, crashes>>

AttachDone(t) ==
  /\ Moves(t, "attach", "mount")
  /\ vid[t] # NoVolume /\ ebs[vid[t]] = "available"
  /\ ebs' = [ebs EXCEPT ![vid[t]] = Here]
  /\ UNCHANGED <<listVars, fileVars, mountedAt, clientVars, localVars, inProgressVolumes, crashes>>

\* attach gives up; the volume may be attached nevertheless.
AttachFails(t) ==
  /\ Moves(t, "attach", "discard")
  /\ \/ vid[t] # NoVolume /\ ebs[vid[t]] = "available" /\ ebs' = [ebs EXCEPT ![vid[t]] = Here]
     \/ UNCHANGED ebs
  /\ UNCHANGED <<listVars, fileVars, mountedAt, clientVars, localVars, inProgressVolumes, crashes>>

DeleteUnattached(t) ==
  /\ Moves(t, "discard", "dec")
  /\ Deletes(vid[t])
  /\ vid' = [vid EXCEPT ![t] = NoVolume]
  /\ UNCHANGED <<listVars, fileVars, clientVars, reg, inProgressVolumes, crashes>>

\* One of the first five tries succeeds, and the new volume is synchronized.
MountDone(t) ==
  /\ Moves(t, "mount", "add")
  /\ ebs[vid[t]] = Here
  /\ mountedAt' = [mountedAt EXCEPT ![vid[t]] = Here]
  /\ UNCHANGED <<listVars, fileVars, ebs, clientVars, localVars, inProgressVolumes, crashes>>

\* Mutant of MountGivenUp: acquire goes on to add the volume.
MountUnchecked(t) ==
  /\ Moves(t, "mount", "add")
  /\ UNCHANGED <<listVars, fileVars, ec2Vars, clientVars, localVars, inProgressVolumes, crashes>>

\* The sixth try is given up whatever it returned, and nothing is deleted.
MountGivenUp(t) ==
  /\ Moves(t, "mount", "dec")
  /\ \/ UNCHANGED mountedAt
     \/ ebs[vid[t]] = Here /\ mountedAt' = [mountedAt EXCEPT ![vid[t]] = Here]
  /\ Detaches(vid[t]) \/ UNCHANGED ebs
  /\ vid' = [vid EXCEPT ![t] = NoVolume]
  /\ UNCHANGED <<listVars, fileVars, clientVars, reg, inProgressVolumes, crashes>>

AddVolume(t) ==
  /\ Moves(t, "add", "dec")
  /\ Stores(t, Append(m_volumes, IdleRecord(vid[t])))
  /\ vid' = [vid EXCEPT ![t] = NoVolume]
  /\ UNCHANGED <<fileVars, ec2Vars, clientVars, reg, inProgressVolumes, crashes>>

Create(t) ==
  \/ LoadCounter(t) \/ StoreCounter(t) \/ CreateVolume(t) \/ CreateFails(t)
  \/ CreateMisread(t) \/ AttachDone(t) \/ AttachFails(t) \/ DeleteUnattached(t)
  \/ MountDone(t) \/ MountGivenUp(t) \/ AddVolume(t)

-----------------------------------------------------------------------------
(* main: the loop that maintains the number of idle volumes, and start-up. *)

Counted == Cardinality(IdleAt(m_volumes)) + inProgressVolumes

SpawnCreator(t) ==
  /\ pc[Main] = "loop" /\ Counted < MaxIdleDisk
  /\ pc[t] = "off" /\ pc' = [pc EXCEPT ![t] = "inc"]
  /\ UNCHANGED <<listVars, fileVars, ec2Vars, clientVars, localVars, inProgressVolumes, crashes>>

SpawnRemover(t) ==
  /\ pc[Main] = "loop" /\ Counted > MaxIdleDisk
  /\ pc[t] = "off" /\ pc' = [pc EXCEPT ![t] = "pick"]
  /\ UNCHANGED <<listVars, fileVars, ec2Vars, clientVars, localVars, inProgressVolumes, crashes>>

LoadFile ==
  /\ pc[Main] = "down" /\ pc' = [pc EXCEPT ![Main] = "remount"]
  /\ m_volumes' = volumeFile
  /\ reg' = [reg EXCEPT ![Main] = 1]
  /\ writeFailed' = FALSE
  /\ UNCHANGED <<wr, volumeFile, buf, ec2Vars, clientVars, vid, inProgressVolumes, crashes>>

\* remount() looks at m_volumes[i] and then at i + 1, whatever it did at i.
Remounts(i) ==
  /\ Moves(Main, "remount", "remount")
  /\ i = reg[Main] /\ i \in DOMAIN m_volumes
  /\ reg' = [reg EXCEPT ![Main] = i + 1]

NeedsMount(r) == r.status = "idle" /\ mountedAt[r.id] # Here

RemountKeeps(i) ==
  /\ Remounts(i) /\ ~NeedsMount(m_volumes[i])
  /\ UNCHANGED <<listVars, fileVars, ec2Vars, clientVars, vid, inProgressVolumes, crashes>>

RemountMounts(i) ==
  /\ Remounts(i) /\ NeedsMount(m_volumes[i]) /\ ebs[m_volumes[i].id] = Here
  /\ mountedAt' = [mountedAt EXCEPT ![m_volumes[i].id] = Here]
  /\ UNCHANGED <<listVars, fileVars, ebs, clientVars, vid, inProgressVolumes, crashes>>

\* Mutant of RemountDrops: the record is erased in memory only.
RemountDropsUnsaved(i) ==
  /\ Remounts(i) /\ NeedsMount(m_volumes[i])
  /\ Detaches(m_volumes[i].id) \/ UNCHANGED ebs
  /\ m_volumes' = Erased(m_volumes, m_volumes[i].id)
  /\ UNCHANGED <<wr, fileVars, mountedAt, clientVars, vid, inProgressVolumes, crashes>>

\* mountfs fails: detach, and drop the record whether or not that worked.
RemountDrops(i) ==
  /\ Remounts(i) /\ NeedsMount(m_volumes[i])
  /\ Detaches(m_volumes[i].id) \/ UNCHANGED ebs
  /\ Stores(Main, Erased(m_volumes, m_volumes[i].id))
  /\ UNCHANGED <<fileVars, mountedAt, clientVars, vid, inProgressVolumes, crashes>>

RemountEnds ==
  /\ Moves(Main, "remount", "loop")
  /\ reg[Main] \notin DOMAIN m_volumes
  /\ reg' = [reg EXCEPT ![Main] = 0]
  /\ UNCHANGED <<listVars, fileVars, ec2Vars, clientVars, vid, inProgressVolumes, crashes>>

StartUp ==
  \/ LoadFile \/ RemountEnds
  \/ \E i \in 1 .. Cardinality(Volume) : RemountKeeps(i) \/ RemountMounts(i) \/ RemountDrops(i)

\* The daemon stops abruptly: its threads and its memory are gone, the file,
\* EC2 and the clients stay; the mounts stay unless the machine restarts.
Crash ==
  /\ pc[Main] # "down" /\ crashes < MaxCrashes
  /\ pc' = [t \in Thread |-> IF t = Main THEN "down" ELSE IF pc[t] = "off" THEN "off" ELSE "done"]
  /\ wr' = [t \in Thread |-> "no"] /\ buf' = [t \in Thread |-> <<>>]
  /\ vid' = [t \in Thread |-> NoVolume] /\ reg' = [t \in Thread |-> 0]
  /\ m_volumes' = <<>> /\ inProgressVolumes' = 0 /\ crashes' = crashes + 1
  /\ \/ UNCHANGED mountedAt
     \/ MayReboot /\ mountedAt' = [v \in Volume |->
                                      IF mountedAt[v] = Here THEN "nowhere" ELSE mountedAt[v]]
  /\ UNCHANGED <<volumeFile, writeFailed, ebs, clientVars>>

-----------------------------------------------------------------------------
(* volumesd-client, disk_acquire and disk_release.                         *)

ClientMoves(c, p, q) == cli[c] = p /\ cli' = [cli EXCEPT ![c] = q]

\* c is connected to the port its handler listens on.
ClientAsks(c) ==
  /\ ClientMoves(c, "start", "asked")
  /\ pc[Main] = "loop" /\ pc[c] = "off" /\ pc' = [pc EXCEPT ![c] = "pick"]
  /\ UNCHANGED <<listVars, fileVars, ec2Vars, reply, ack, localVars, inProgressVolumes, crashes>>

\* A refusal, or the connection ends: the client stops without a volume.
ClientTurnedAway(c) ==
  /\ ClientMoves(c, "asked", "over")
  /\ pc[c] = "done" /\ wr[c] = "no"
  /\ UNCHANGED <<listVars, fileVars, ec2Vars, reply, ack, localVars, inProgressVolumes, pc, crashes>>

ClientReceives(c) ==
  /\ ClientMoves(c, "asked", "attach")
  /\ reply[c] # NoVolume
  /\ UNCHANGED <<listVars, fileVars, ec2Vars, reply, ack, localVars, inProgressVolumes, pc, crashes>>

ClientAttaches(c) ==
  /\ ClientMoves(c, "attach", "mount")
  /\ ebs[reply[c]] = "available" /\ ebs' = [ebs EXCEPT ![reply[c]] = c]
  /\ UNCHANGED <<listVars, fileVars, mountedAt, reply, ack, localVars, inProgressVolumes, pc, crashes>>

ClientAttachFails(c) ==
  /\ ClientMoves(c, "attach", "discard")
  /\ \/ ebs[reply[c]] = "available" /\ ebs' = [ebs EXCEPT ![reply[c]] = c]
     \/ UNCHANGED ebs
  /\ UNCHANGED <<listVars, fileVars, mountedAt, reply, ack, localVars, inProgressVolumes, pc, crashes>>

ClientMounts(c) ==
  /\ ClientMoves(c, "mount", "mounted")
  /\ ebs[reply[c]] = c
  /\ mountedAt' = [mountedAt EXCEPT ![reply[c]] = c]
  /\ UNCHANGED <<listVars, fileVars, ebs, reply, ack, localVars, inProgressVolumes, pc, crashes>>

\* The volume is detached, to be deleted, or cannot be and is left as it is.
ClientMountFails(c) ==
  /\ \/ ClientMoves(c, "mount", "discard") /\ Detaches(reply[c])
     \/ ClientMoves(c, "mount", "failed") /\ UNCHANGED ebs
  /\ UNCHANGED <<listVars, fileVars, mountedAt, reply, ack, localVars, inProgressVolumes, pc, crashes>>

ClientDiscards(c) ==
  /\ ClientMoves(c, "discard", "failed")
  /\ Deletes(reply[c])
  /\ UNCHANGED <<listVars, fileVars, reply, ack, localVars, inProgressVolumes, pc, crashes>>

\* An answer nobody reads any more is lost, and the client does not notice.
ClientAnswers(c) ==
  /\ \/ ClientMoves(c, "mounted", "using") /\ ack' = [ack EXCEPT ![c] = "OK"]
     \/ ClientMoves(c, "failed", "over") /\ ack' = [ack EXCEPT ![c] = "FAILED"]
  /\ UNCHANGED <<listVars, fileVars, ec2Vars, reply, localVars, inProgressVolumes, pc, crashes>>

ClientDies(c) ==
  /\ cli[c] \in {"asked", "attach", "mount", "discard", "mounted", "failed"}
  /\ cli' = [cli EXCEPT ![c] = "over"] /\ ack' = [ack EXCEPT ![c] = "closed"]
  /\ UNCHANGED <<listVars, fileVars, ec2Vars, reply, localVars, inProgressVolumes, pc, crashes>>

\* disk_release: unmount (or fail to, unnoticed), detach, delete, tell.  When the
\* detach is refused, it ends there.
ClientDetaches(c) ==
  /\ \/ ClientMoves(c, "using", "leaving") /\ ebs[reply[c]] = c /\ Detaches(reply[c])
     \/ ClientMoves(c, "using", "over") /\ UNCHANGED ebs
  /\ \/ UNCHANGED mountedAt
     \/ mountedAt[reply[c]] = c /\ mountedAt' = [mountedAt EXCEPT ![reply[c]] = "nowhere"]
  /\ UNCHANGED <<listVars, fileVars, reply, ack, localVars, inProgressVolumes, pc, crashes>>

ClientDeletes(c) ==
  /\ ClientMoves(c, "leaving", "notify")
  /\ ebs[reply[c]] = "available" /\ ebs' = [ebs EXCEPT ![reply[c]] = "deleted"]
  /\ UNCHANGED <<listVars, fileVars, mountedAt, reply, ack, localVars, inProgressVolumes, pc, crashes>>

\* The volume does not detach in time, or is not deleted: no request is sent.
ClientReleaseFails(c) ==
  /\ ClientMoves(c, "leaving", "over")
  /\ UNCHANGED <<listVars, fileVars, ec2Vars, reply, ack, localVars, inProgressVolumes, pc, crashes>>

ClientNotifies(c, t) ==
  /\ ClientMoves(c, "notify", "over")
  /\ pc[Main] = "loop" /\ pc[t] = "off" /\ pc' = [pc EXCEPT ![t] = "check"]
  /\ vid' = [vid EXCEPT ![t] = reply[c]]
  /\ UNCHANGED <<listVars, fileVars, ec2Vars, reply, ack, reg, inProgressVolumes, crashes>>

\* The client connects to another address than the one it was served from.
NotifyLost(c) ==
  /\ ClientMoves(c, "notify", "over")
  /\ UNCHANGED <<listVars, fileVars, ec2Vars, reply, ack, localVars, inProgressVolumes, pc, crashes>>

ClientStep(c) ==
  \/ ClientAsks(c) \/ ClientTurnedAway(c) \/ ClientReceives(c) \/ ClientAttaches(c)
  \/ ClientAttachFails(c) \/ ClientMounts(c) \/ ClientMountFails(c) \/ ClientDiscards(c)
  \/ ClientAnswers(c) \/ ClientDies(c) \/ ClientDetaches(c) \/ ClientDeletes(c)
  \/ ClientReleaseFails(c) \/ NotifyLost(c) \/ \E t \in Releaser : ClientNotifies(c, t)

\* EC2 finishes to detach v, at any time; a mount on it is gone with it.
EbsDetached(v) ==
  /\ ebs[v] = "detaching"
  /\ ebs' = [ebs EXCEPT ![v] = "available"]
  /\ mountedAt' = [mountedAt EXCEPT ![v] = "nowhere"]
  /\ UNCHANGED <<listVars, fileVars, clientVars, localVars, inProgressVolumes, pc, crashes>>

-----------------------------------------------------------------------------
(* The daemon was started, has loaded and remounted the volumes of Loaded. *)

Init ==
  /\ m_volumes = [i \in DOMAIN Loaded |-> IdleRecord(Loaded[i])]
  /\ volumeFile = [i \in DOMAIN Loaded |-> IdleRecord(Loaded[i])]
  /\ inProgressVolumes = 0
  /\ pc = [t \in Thread |-> IF t = Main THEN "loop" ELSE "off"]
  /\ vid = [t \in Thread |-> NoVolume]
  /\ reg = [t \in Thread |-> 0]
  /\ wr = [t \in Thread |-> "no"]
  /\ buf = [t \in Thread |-> <<>>]
  /\ ebs = [v \in Volume |-> IF \E i \in DOMAIN Loaded : Loaded[i] = v THEN Here ELSE "absent"]
  /\ mountedAt = [v \in Volume |->
                    IF \E i \in DOMAIN Loaded : Loaded[i] = v THEN Here ELSE "nowhere"]
  /\ cli = [c \in Client |-> "start"]
  /\ reply = [c \in Client |-> NoVolume]
  /\ ack = [c \in Client |-> "none"]
  /\ writeFailed = FALSE
  /\ crashes = 0

Next ==
  \/ \E t \in Thread : WriteStep(t)
  \/ \E t \in Taker : Release(t) \/ DeleteTaken(t)
  \/ \E c \in Client : Aquire(c) \/ ClientStep(c)
  \/ \E t \in Creator : Create(t) \/ SpawnCreator(t)
  \/ \E t \in Remover : SpawnRemover(t)
  \/ \E t \in Releaser : CheckReleased(t)
  \/ \E t \in Remover \cup Releaser : DropRecord(t)
  \/ \E v \in Volume : EbsDetached(v)
  \/ StartUp
  \/ Crash

Spec == Init /\ [][Next]_vars

\* What the handler of c needs to go on, and the mutex it waits for.
Fairness ==
  /\ \A t \in Thread : WF_vars(WriteStep(t))
  /\ \A c \in Client : /\ WF_vars(Release(c) \/ DeleteTaken(c) \/ Aquire(c))
                       /\ WF_vars(ClientTurnedAway(c) \/ ClientReceives(c))

FairSpec == Spec /\ Fairness

-----------------------------------------------------------------------------
(* Properties.                                                             *)

Control ==
  {"off", "done", "pick", "read", "take", "umount", "detach", "detaching", "undetached",
   "send", "ack", "del", "drop", "check", "inc", "incremented", "create", "spin",
   "attach", "discard", "mount", "add", "dec", "decremented", "loop", "down", "remount"}

ClientControl ==
  {"start", "asked", "attach", "mount", "mounted", "discard", "failed", "using",
   "leaving", "notify", "over"}

TypeOK ==
  /\ m_volumes \in Seq(Record)
  /\ volumeFile \in Seq(Record)
  /\ inProgressVolumes \in Int
  /\ pc \in [Thread -> Control]
  /\ vid \in [Thread -> Volume \cup {NoVolume}]
  /\ reg \in [Thread -> Int]
  /\ wr \in [Thread -> {"no", "due", "open", "copied"}]
  /\ buf \in [Thread -> Seq(Record)]
  /\ ebs \in [Volume -> EbsState]
  /\ mountedAt \in [Volume -> Instance \cup {"nowhere"}]
  /\ cli \in [Client -> ClientControl]
  /\ reply \in [Client -> Volume \cup {NoVolume}]
  /\ ack \in [Client -> {"none", "OK", "FAILED", "closed"}]
  /\ writeFailed \in BOOLEAN
  /\ crashes \in 0 .. MaxCrashes

\* A volume one can rely on: attached here and mounted here.
Ready(v) == ebs[v] = Here /\ mountedAt[v] = Here

\* IdleReady: every volume the list offers as idle is attached and mounted on
\* this machine, whatever the threads of Volumes::release, acquire and remove,
\* the clients and EC2 do in between, and after the daemon has come back.
IdleReady == \A v \in Idle(m_volumes) : Ready(v)

\* CrashSafe: the same of the file, at every moment the daemon may stop: what
\* it loads as idle the next time has not been given to a client meanwhile.
CrashSafe == \A v \in Idle(volumeFile) : Ready(v)

\* FilePersisted: whenever no write_to_file is due or under way, and the last one
\* has not failed, the file holds the list: no thread has overwritten a later list
\* with one copied earlier, and what a failed write left out the next one brings.
FilePersisted ==
  (pc[Main] # "down" /\ ~writeFailed /\ \A t \in Thread : wr[t] = "no")
    => volumeFile = m_volumes

\* UsedWasMounted: a volume is listed as used by a client only when that client
\* was sent this volume and has answered OK for it.
UsedWasMounted ==
  \A i \in DOMAIN m_volumes :
    m_volumes[i].status = "used" =>
      LET c == m_volumes[i].attachedTo
      IN c \in Client /\ reply[c] = m_volumes[i].id /\ ack[c] = "OK"

\* SentIsDetached: a volume that a client was sent is neither attached nor mounted
\* here any more, so the client can attach it.
SentIsDetached ==
  \A c \in Client :
    reply[c] # NoVolume => ebs[reply[c]] # Here /\ mountedAt[reply[c]] # Here

\* Answered: a client that is connected to its handler is in the end sent a
\* volume, refused or disconnected; no step of release blocks it for ever.
Answered == \A c \in Client : cli[c] = "asked" ~> cli[c] # "asked"

-----------------------------------------------------------------------------
(* What the repository says of the pool and its code does not keep.        *)

\* UsedIsLeftAlone: while a client uses its volume, nobody detaches it.  The
\* comment in Volumes::release says why an index must not be kept, and the next
\* line reads the record by the index found before.
UsedIsLeftAlone ==
  [][\A c \in Client :
       (cli[c] = "using" /\ cli'[c] = "using" /\ ebs[reply[c]] = c) => ebs'[reply[c]] = c]_vars

\* SparesMounted: once start-up is over, the idle volumes are mounted ("all spare
\* volumes are mounted successfully").
SparesMounted == pc[Main] = "loop" => IdleReady
=============================================================================
