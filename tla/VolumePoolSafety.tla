-------------------------- MODULE VolumePoolSafety --------------------------
(***************************************************************************)
(* TLAPS proof that what the daemon offers as idle is attached and mounted *)
(* here.  LedgerInv is inductive when the file can be opened; a step then  *)
(* keeps OfferedReady too, unless it is a restart of the whole machine.    *)
(***************************************************************************)
EXTENDS VolumePoolProofs

-----------------------------------------------------------------------------
(* What follows from the variables a step leaves alone.                    *)

\* A step that touches neither the list, nor the file, nor a write to it.
Quiet == UNCHANGED <<m_volumes, wr, volumeFile, buf>>

\* What each step keeps: LedgerInv, and OfferedReady if it held.
ReadyKept == OfferedReady => OfferedReady'
LedgerKept == LedgerInv' /\ ReadyKept

\* What is offered is listed somewhere, and only volumes are listed.
LEMMA OfferedVolumes ==
  ASSUME TypeInv
  PROVE  Offered \subseteq Listed /\ Listed \subseteq Volume /\ Idle(m_volumes) \subseteq Offered
<1>1. \A s \in Seq(Record) : Idle(s) \subseteq Ids(s) /\ Ids(s) \subseteq Volume
  <2> SUFFICES ASSUME NEW s \in Seq(Record) PROVE Idle(s) \subseteq Ids(s) /\ Ids(s) \subseteq Volume
    OBVIOUS
  <2>1. \A i \in DOMAIN s : s[i] \in Record
    OBVIOUS
  <2> QED BY <2>1 DEF Idle, IdleAt, Ids, Record
<1> QED BY <1>1 DEF TypeInv, TypeOK, Offered, Listed

\* Such a step keeps what is listed and offered, and who writes.
LEMMA QuietLists ==
  ASSUME Quiet
  PROVE  /\ Offered' = Offered /\ Listed' = Listed
         /\ MutexInv' = MutexInv /\ UniqueInv' = UniqueInv
BY DEF Quiet, Offered, Listed, MutexInv, UniqueInv

\* If nothing becomes offered and nobody learns of a volume, what the clients
\* have is still not offered, and what a creator works on is still its own.
LEMMA NamesKept ==
  ASSUME LedgerInv, Offered' \subseteq Offered, Listed' \subseteq Listed, UNCHANGED <<vid, reply>>
  PROVE  GivenInv' /\ FreshInv'
BY DEF LedgerInv, GivenInv, FreshInv

\* A step that changes EC2 or a mount for v only, when v is not offered.
LEMMA OtherVolumesKept ==
  ASSUME TypeInv, LedgerInv, Offered' \subseteq Offered, Listed' \subseteq Listed,
         UNCHANGED <<vid, reply>>, NEW v,
         OfferedReady /\ v \in Offered => Ready(v)',
         \A w \in Volume : w # v => ebs'[w] = ebs[w] /\ mountedAt'[w] = mountedAt[w],
         \A w \in Volume : ebs[w] # "absent" => ebs'[w] # "absent"
  PROVE  ReadyKept /\ CreatedInv'
<1>1. Offered \subseteq Listed /\ Listed \subseteq Volume
  BY OfferedVolumes
<1>2. ReadyKept
  BY <1>1 DEF LedgerInv, ReadyKept, OfferedReady, Ready
<1>3. CreatedInv'
  BY <1>1 DEF LedgerInv, CreatedInv, TypeInv, TypeOK
<1> QED BY <1>2, <1>3

\* A step that changes no volume.
LEMMA VolumesKept ==
  ASSUME LedgerInv, Offered' \subseteq Offered, Listed' \subseteq Listed,
         UNCHANGED <<vid, reply, ebs, mountedAt>>
  PROVE  ReadyKept /\ CreatedInv' /\ GivenInv' /\ FreshInv'
BY NamesKept DEF LedgerInv, ReadyKept, OfferedReady, CreatedInv, Ready

\* The steps of Release that change no volume.
LEMMA ReleaseControlReady ==
  ASSUME TypeInv, LedgerInv, NEW t \in Taker,
         GetIdleVolume(t) \/ NoIdleVolume(t) \/ DetachRefused(t) \/ DetachDone(t) \/ DetachTimeout(t)
  PROVE  LedgerKept
<1>1. Quiet /\ UNCHANGED <<vid, reply, ebs, mountedAt>>
  BY DEF Quiet, listVars, fileVars, ec2Vars, clientVars, localVars,
         GetIdleVolume, NoIdleVolume, DetachRefused, DetachDone, DetachTimeout
<1>2. /\ Offered' = Offered /\ Listed' = Listed /\ MutexInv' /\ UniqueInv'
      /\ ReadyKept /\ CreatedInv' /\ GivenInv' /\ FreshInv'
  BY <1>1, QuietLists, VolumesKept DEF LedgerInv
<1>3. CASE GetIdleVolume(t)
  BY <1>1, <1>2, <1>3, ThreadAssumption
  DEF TypeInv, TypeOK, LedgerKept, LedgerInv, DownInv, StartInv, OfferedListed, TakenInv, Holding, AddInv, Ready,
      Moves, Thread, Worker, Taker, Main, Quiet, GetIdleVolume
<1>4. CASE NoIdleVolume(t)
  BY <1>1, <1>2, <1>4, ThreadAssumption
  DEF TypeInv, TypeOK, LedgerKept, LedgerInv, DownInv, StartInv, OfferedListed, TakenInv, Holding, AddInv, Ready,
      Moves, Thread, Worker, Taker, Main, Quiet, NoIdleVolume
<1>5. CASE DetachRefused(t)
  BY <1>1, <1>2, <1>5, ThreadAssumption
  DEF TypeInv, TypeOK, LedgerKept, LedgerInv, DownInv, StartInv, OfferedListed, TakenInv, Holding, AddInv, Ready,
      Moves, Thread, Worker, Taker, Main, Quiet, DetachRefused
<1>6. CASE DetachDone(t)
  BY <1>1, <1>2, <1>6, ThreadAssumption
  DEF TypeInv, TypeOK, LedgerKept, LedgerInv, DownInv, StartInv, OfferedListed, TakenInv, Holding, AddInv, Ready,
      Moves, Thread, Worker, Taker, Main, Quiet, DetachDone
<1>7. CASE DetachTimeout(t)
  BY <1>1, <1>2, <1>7, ThreadAssumption
  DEF TypeInv, TypeOK, LedgerKept, LedgerInv, DownInv, StartInv, OfferedListed, TakenInv, Holding, AddInv, Ready,
      Moves, Thread, Worker, Taker, Main, Quiet, DetachTimeout
<1> QED BY <1>3, <1>4, <1>5, <1>6, <1>7

\* The steps of a creator that change no volume.
LEMMA CreateControlReady ==
  ASSUME TypeInv, LedgerInv, NEW t \in Creator,
         LoadCounter(t) \/ StoreCounter(t) \/ CreateFails(t) \/ CreateMisread(t) \/ SpawnCreator(t)
  PROVE  LedgerKept
<1>1. Quiet /\ UNCHANGED <<vid, reply, ebs, mountedAt>>
  BY DEF Quiet, listVars, fileVars, ec2Vars, clientVars, localVars,
         LoadCounter, StoreCounter, CreateFails, CreateMisread, SpawnCreator
<1>2. /\ Offered' = Offered /\ Listed' = Listed /\ MutexInv' /\ UniqueInv'
      /\ ReadyKept /\ CreatedInv' /\ GivenInv' /\ FreshInv'
  BY <1>1, QuietLists, VolumesKept DEF LedgerInv
<1>3. CASE LoadCounter(t)
  BY <1>1, <1>2, <1>3, ThreadAssumption
  DEF TypeInv, TypeOK, LedgerKept, LedgerInv, DownInv, StartInv, OfferedListed, TakenInv, Holding, AddInv, Ready,
      Moves, Thread, Worker, Taker, Main, Quiet, LoadCounter
<1>4. CASE StoreCounter(t)
  BY <1>1, <1>2, <1>4, ThreadAssumption
  DEF TypeInv, TypeOK, LedgerKept, LedgerInv, DownInv, StartInv, OfferedListed, TakenInv, Holding, AddInv, Ready,
      Moves, Thread, Worker, Taker, Main, Quiet, StoreCounter
<1>5. CASE CreateFails(t)
  BY <1>1, <1>2, <1>5, ThreadAssumption
  DEF TypeInv, TypeOK, LedgerKept, LedgerInv, DownInv, StartInv, OfferedListed, TakenInv, Holding, AddInv, Ready,
      Moves, Thread, Worker, Taker, Main, Quiet, CreateFails
<1>6. CASE CreateMisread(t)
  BY <1>1, <1>2, <1>6, ThreadAssumption
  DEF TypeInv, TypeOK, LedgerKept, LedgerInv, DownInv, StartInv, OfferedListed, TakenInv, Holding, AddInv, Ready,
      Moves, Thread, Worker, Taker, Main, Quiet, CreateMisread
<1>7. CASE SpawnCreator(t)
  BY <1>1, <1>2, <1>7, ThreadAssumption
  DEF TypeInv, TypeOK, LedgerKept, LedgerInv, DownInv, StartInv, OfferedListed, TakenInv, Holding, AddInv, Ready,
      Moves, Thread, Worker, Taker, Main, Quiet, SpawnCreator
<1> QED BY <1>3, <1>4, <1>5, <1>6, <1>7

\* The steps of a client that only move a thread or a client.
LEMMA ClientControlReady ==
  ASSUME TypeInv, LedgerInv, NEW c \in Client,
         ClientAsks(c) \/ ClientTurnedAway(c) \/ ClientReceives(c) \/ ClientAnswers(c) \/ ClientDies(c) \/ ClientReleaseFails(c) \/ NotifyLost(c)
  PROVE  LedgerKept
<1>1. Quiet /\ UNCHANGED <<vid, reply, ebs, mountedAt>>
  BY DEF Quiet, listVars, fileVars, ec2Vars, clientVars, localVars,
         ClientAsks, ClientTurnedAway, ClientReceives, ClientAnswers, ClientDies, ClientReleaseFails, NotifyLost
<1>2. /\ Offered' = Offered /\ Listed' = Listed /\ MutexInv' /\ UniqueInv'
      /\ ReadyKept /\ CreatedInv' /\ GivenInv' /\ FreshInv'
  BY <1>1, QuietLists, VolumesKept DEF LedgerInv
<1>3. CASE ClientAsks(c)
  BY <1>1, <1>2, <1>3, ThreadAssumption
  DEF TypeInv, TypeOK, LedgerKept, LedgerInv, DownInv, StartInv, OfferedListed, TakenInv, Holding, AddInv, Ready,
      Moves, Thread, Worker, Taker, Main, Quiet, ClientAsks
<1>4. CASE ClientTurnedAway(c)
  BY <1>1, <1>2, <1>4, ThreadAssumption
  DEF TypeInv, TypeOK, LedgerKept, LedgerInv, DownInv, StartInv, OfferedListed, TakenInv, Holding, AddInv, Ready,
      Moves, Thread, Worker, Taker, Main, Quiet, ClientTurnedAway
<1>5. CASE ClientReceives(c)
  BY <1>1, <1>2, <1>5, ThreadAssumption
  DEF TypeInv, TypeOK, LedgerKept, LedgerInv, DownInv, StartInv, OfferedListed, TakenInv, Holding, AddInv, Ready,
      Moves, Thread, Worker, Taker, Main, Quiet, ClientReceives
<1>6. CASE ClientAnswers(c)
  BY <1>1, <1>2, <1>6, ThreadAssumption
  DEF TypeInv, TypeOK, LedgerKept, LedgerInv, DownInv, StartInv, OfferedListed, TakenInv, Holding, AddInv, Ready,
      Moves, Thread, Worker, Taker, Main, Quiet, ClientAnswers
<1>7. CASE ClientDies(c)
  BY <1>1, <1>2, <1>7, ThreadAssumption
  DEF TypeInv, TypeOK, LedgerKept, LedgerInv, DownInv, StartInv, OfferedListed, TakenInv, Holding, AddInv, Ready,
      Moves, Thread, Worker, Taker, Main, Quiet, ClientDies
<1>8. CASE ClientReleaseFails(c)
  BY <1>1, <1>2, <1>8, ThreadAssumption
  DEF TypeInv, TypeOK, LedgerKept, LedgerInv, DownInv, StartInv, OfferedListed, TakenInv, Holding, AddInv, Ready,
      Moves, Thread, Worker, Taker, Main, Quiet, ClientReleaseFails
<1>9. CASE NotifyLost(c)
  BY <1>1, <1>2, <1>9, ThreadAssumption
  DEF TypeInv, TypeOK, LedgerKept, LedgerInv, DownInv, StartInv, OfferedListed, TakenInv, Holding, AddInv, Ready,
      Moves, Thread, Worker, Taker, Main, Quiet, NotifyLost
<1> QED BY <1>3, <1>4, <1>5, <1>6, <1>7, <1>8, <1>9

\* main starting a remover.
LEMMA RemoveControlReady ==
  ASSUME TypeInv, LedgerInv, NEW t \in Remover,
         SpawnRemover(t)
  PROVE  LedgerKept
<1>1. Quiet /\ UNCHANGED <<vid, reply, ebs, mountedAt>>
  BY DEF Quiet, listVars, fileVars, ec2Vars, clientVars, localVars,
         SpawnRemover
<1>2. /\ Offered' = Offered /\ Listed' = Listed /\ MutexInv' /\ UniqueInv'
      /\ ReadyKept /\ CreatedInv' /\ GivenInv' /\ FreshInv'
  BY <1>1, QuietLists, VolumesKept DEF LedgerInv
<1>3. CASE SpawnRemover(t)
  BY <1>1, <1>2, <1>3, ThreadAssumption
  DEF TypeInv, TypeOK, LedgerKept, LedgerInv, DownInv, StartInv, OfferedListed, TakenInv, Holding, AddInv, Ready,
      Moves, Thread, Worker, Taker, Main, Quiet, SpawnRemover
<1> QED BY <1>3

\* A release handler looking its volume up.
LEMMA CheckControlReady ==
  ASSUME TypeInv, LedgerInv, NEW t \in Releaser,
         CheckReleased(t)
  PROVE  LedgerKept
<1>1. Quiet /\ UNCHANGED <<vid, reply, ebs, mountedAt>>
  BY DEF Quiet, listVars, fileVars, ec2Vars, clientVars, localVars,
         CheckReleased
<1>2. /\ Offered' = Offered /\ Listed' = Listed /\ MutexInv' /\ UniqueInv'
      /\ ReadyKept /\ CreatedInv' /\ GivenInv' /\ FreshInv'
  BY <1>1, QuietLists, VolumesKept DEF LedgerInv
<1>3. CASE CheckReleased(t)
  BY <1>1, <1>2, <1>3, ThreadAssumption
  DEF TypeInv, TypeOK, LedgerKept, LedgerInv, DownInv, StartInv, OfferedListed, TakenInv, Holding, AddInv, Ready,
      Moves, Thread, Worker, Taker, Main, Quiet, CheckReleased
<1> QED BY <1>3

\* The steps of a taker that change EC2's state of its volume, or a mount of it.
LEMMA TakerVolumeReady ==
  ASSUME TypeInv, LedgerInv, NEW t \in Taker,
         Umount(t) \/ DetachIssue(t) \/ DeleteTaken(t)
  PROVE  LedgerKept
<1>1. Quiet /\ UNCHANGED <<vid, reply>>
  BY DEF Quiet, Deletes, listVars, fileVars, ec2Vars, clientVars, localVars,
         Umount, DetachIssue, DeleteTaken
<1>2. Offered' = Offered /\ Listed' = Listed /\ MutexInv' /\ UniqueInv' /\ GivenInv' /\ FreshInv'
  BY <1>1, QuietLists, NamesKept DEF LedgerInv
<1>3. Offered \subseteq Listed /\ Listed \subseteq Volume
  BY OfferedVolumes
<1>4. CASE Umount(t)
  <2>1. vid[t] \in Offered => Ready(vid[t])'
    BY <1>1, <1>3, <1>4, VolumeAssumption
    DEF Umount, Moves, Detaches, Deletes, TypeInv, TypeOK, LedgerInv, TakenInv, Holding, Ready,
       Thread, Worker, Taker, Instance, Here
  <2>2. /\ \A w \in Volume : w # vid[t] => ebs'[w] = ebs[w] /\ mountedAt'[w] = mountedAt[w]
        /\ \A w \in Volume : ebs[w] # "absent" => ebs'[w] # "absent"
    BY <1>4, InstanceAssumption DEF Umount, Detaches, Deletes, TypeInv, TypeOK, Here
  <2>3. ReadyKept /\ CreatedInv'
    BY <1>1, <1>2, <2>1, <2>2, OtherVolumesKept
  <2>4. AddInv'
    BY <1>1, <1>4, <2>2, ThreadAssumption
    DEF Umount, TypeInv, TypeOK, LedgerInv, AddInv, FreshInv, Ready, Here, Moves, Thread, Worker, Taker
  <2> QED BY <1>1, <1>2, <1>4, <2>3, <2>4, ThreadAssumption
      DEF Umount, Moves, TypeInv, TypeOK, LedgerKept, LedgerInv, DownInv, StartInv, OfferedListed, TakenInv, Holding,
          Thread, Worker, Taker, Main, Quiet
<1>5. CASE DetachIssue(t)
  <2>1. vid[t] \in Offered => Ready(vid[t])'
    BY <1>1, <1>3, <1>5, VolumeAssumption
    DEF DetachIssue, Moves, Detaches, Deletes, TypeInv, TypeOK, LedgerInv, TakenInv, Holding, Ready,
       Thread, Worker, Taker, Instance, Here
  <2>2. /\ \A w \in Volume : w # vid[t] => ebs'[w] = ebs[w] /\ mountedAt'[w] = mountedAt[w]
        /\ \A w \in Volume : ebs[w] # "absent" => ebs'[w] # "absent"
    BY <1>5, InstanceAssumption DEF DetachIssue, Detaches, Deletes, TypeInv, TypeOK, Here
  <2>3. ReadyKept /\ CreatedInv'
    BY <1>1, <1>2, <2>1, <2>2, OtherVolumesKept
  <2>4. AddInv'
    BY <1>1, <1>5, <2>2, ThreadAssumption
    DEF DetachIssue, TypeInv, TypeOK, LedgerInv, AddInv, FreshInv, Ready, Here, Moves, Thread, Worker, Taker
  <2> QED BY <1>1, <1>2, <1>5, <2>3, <2>4, ThreadAssumption
      DEF DetachIssue, Moves, TypeInv, TypeOK, LedgerKept, LedgerInv, DownInv, StartInv, OfferedListed, TakenInv, Holding,
          Thread, Worker, Taker, Main, Quiet
<1>6. CASE DeleteTaken(t)
  <2>1. vid[t] \in Offered => Ready(vid[t])'
    BY <1>1, <1>3, <1>6, VolumeAssumption
    DEF DeleteTaken, Moves, Detaches, Deletes, TypeInv, TypeOK, LedgerInv, TakenInv, Holding, Ready,
       Thread, Worker, Taker, Instance, Here
  <2>2. /\ \A w \in Volume : w # vid[t] => ebs'[w] = ebs[w] /\ mountedAt'[w] = mountedAt[w]
        /\ \A w \in Volume : ebs[w] # "absent" => ebs'[w] # "absent"
    BY <1>6, InstanceAssumption DEF DeleteTaken, Detaches, Deletes, TypeInv, TypeOK, Here
  <2>3. ReadyKept /\ CreatedInv'
    BY <1>1, <1>2, <2>1, <2>2, OtherVolumesKept
  <2>4. AddInv'
    BY <1>1, <1>6, <2>2, ThreadAssumption
    DEF DeleteTaken, TypeInv, TypeOK, LedgerInv, AddInv, FreshInv, Ready, Here, Moves, Thread, Worker, Taker
  <2> QED BY <1>1, <1>2, <1>6, <2>3, <2>4, ThreadAssumption
      DEF DeleteTaken, Moves, TypeInv, TypeOK, LedgerKept, LedgerInv, DownInv, StartInv, OfferedListed, TakenInv, Holding,
          Thread, Worker, Taker, Main, Quiet
<1> QED BY <1>4, <1>5, <1>6

\* The steps of a creator that change EC2's state of its volume, or a mount of it.
LEMMA CreatorVolumeReady ==
  ASSUME TypeInv, LedgerInv, NEW t \in Creator,
         AttachDone(t) \/ AttachFails(t) \/ MountDone(t)
  PROVE  LedgerKept
<1>1. Quiet /\ UNCHANGED <<vid, reply>>
  BY DEF Quiet, Deletes, listVars, fileVars, ec2Vars, clientVars, localVars,
         AttachDone, AttachFails, MountDone
<1>2. Offered' = Offered /\ Listed' = Listed /\ MutexInv' /\ UniqueInv' /\ GivenInv' /\ FreshInv'
  BY <1>1, QuietLists, NamesKept DEF LedgerInv
<1>3. Offered \subseteq Listed /\ Listed \subseteq Volume
  BY OfferedVolumes
<1>4. CASE AttachDone(t)
  <2>1. vid[t] \in Offered => Ready(vid[t])'
    BY <1>1, <1>3, <1>4, VolumeAssumption
    DEF AttachDone, Moves, Detaches, Deletes, TypeInv, TypeOK, LedgerInv, FreshInv, Ready,
       Thread, Worker, Taker, Instance, Here
  <2>2. /\ \A w \in Volume : w # vid[t] => ebs'[w] = ebs[w] /\ mountedAt'[w] = mountedAt[w]
        /\ \A w \in Volume : ebs[w] # "absent" => ebs'[w] # "absent"
    BY <1>4, InstanceAssumption DEF AttachDone, Detaches, Deletes, TypeInv, TypeOK, Here
  <2>3. ReadyKept /\ CreatedInv'
    BY <1>1, <1>2, <2>1, <2>2, OtherVolumesKept
  <2>4. AddInv'
    BY <1>1, <1>4, <2>2, ThreadAssumption
    DEF AttachDone, TypeInv, TypeOK, LedgerInv, AddInv, FreshInv, Ready, Here, Moves, Thread, Worker, Taker
  <2> QED BY <1>1, <1>2, <1>4, <2>3, <2>4, ThreadAssumption
      DEF AttachDone, Moves, TypeInv, TypeOK, LedgerKept, LedgerInv, DownInv, StartInv, OfferedListed, TakenInv, Holding,
          Thread, Worker, Taker, Main, Quiet
<1>5. CASE AttachFails(t)
  <2>1. vid[t] \in Offered => Ready(vid[t])'
    BY <1>1, <1>3, <1>5, VolumeAssumption
    DEF AttachFails, Moves, Detaches, Deletes, TypeInv, TypeOK, LedgerInv, FreshInv, Ready,
       Thread, Worker, Taker, Instance, Here
  <2>2. /\ \A w \in Volume : w # vid[t] => ebs'[w] = ebs[w] /\ mountedAt'[w] = mountedAt[w]
        /\ \A w \in Volume : ebs[w] # "absent" => ebs'[w] # "absent"
    BY <1>5, InstanceAssumption DEF AttachFails, Detaches, Deletes, TypeInv, TypeOK, Here
  <2>3. ReadyKept /\ CreatedInv'
    BY <1>1, <1>2, <2>1, <2>2, OtherVolumesKept
  <2>4. AddInv'
    BY <1>1, <1>5, <2>2, ThreadAssumption
    DEF AttachFails, TypeInv, TypeOK, LedgerInv, AddInv, FreshInv, Ready, Here, Moves, Thread, Worker, Taker
  <2> QED BY <1>1, <1>2, <1>5, <2>3, <2>4, ThreadAssumption
      DEF AttachFails, Moves, TypeInv, TypeOK, LedgerKept, LedgerInv, DownInv, StartInv, OfferedListed, TakenInv, Holding,
          Thread, Worker, Taker, Main, Quiet
<1>6. CASE MountDone(t)
  <2>1. vid[t] \in Offered => Ready(vid[t])'
    BY <1>1, <1>3, <1>6, VolumeAssumption
    DEF MountDone, Moves, Detaches, Deletes, TypeInv, TypeOK, LedgerInv, FreshInv, Ready,
       Thread, Worker, Taker, Instance, Here
  <2>2. /\ \A w \in Volume : w # vid[t] => ebs'[w] = ebs[w] /\ mountedAt'[w] = mountedAt[w]
        /\ \A w \in Volume : ebs[w] # "absent" => ebs'[w] # "absent"
    BY <1>6, InstanceAssumption DEF MountDone, Detaches, Deletes, TypeInv, TypeOK, Here
  <2>3. ReadyKept /\ CreatedInv'
    BY <1>1, <1>2, <2>1, <2>2, OtherVolumesKept
  <2>4. AddInv'
    BY <1>1, <1>6, <2>2, ThreadAssumption
    DEF MountDone, TypeInv, TypeOK, LedgerInv, AddInv, FreshInv, Ready, Here, Moves, Thread, Worker, Taker
  <2> QED BY <1>1, <1>2, <1>6, <2>3, <2>4, ThreadAssumption
      DEF MountDone, Moves, TypeInv, TypeOK, LedgerKept, LedgerInv, DownInv, StartInv, OfferedListed, TakenInv, Holding,
          Thread, Worker, Taker, Main, Quiet
<1> QED BY <1>4, <1>5, <1>6

\* The steps of a client that change EC2's state of its volume, or a mount of it.
LEMMA ClientVolumeReady ==
  ASSUME TypeInv, LedgerInv, NEW c \in Client,
         ClientAttaches(c) \/ ClientAttachFails(c) \/ ClientMounts(c) \/ ClientMountFails(c) \/ ClientDiscards(c) \/ ClientDetaches(c) \/ ClientDeletes(c)
  PROVE  LedgerKept
<1>1. Quiet /\ UNCHANGED <<vid, reply>>
  BY DEF Quiet, Deletes, listVars, fileVars, ec2Vars, clientVars, localVars,
         ClientAttaches, ClientAttachFails, ClientMounts, ClientMountFails, ClientDiscards, ClientDetaches, ClientDeletes
<1>2. Offered' = Offered /\ Listed' = Listed /\ MutexInv' /\ UniqueInv' /\ GivenInv' /\ FreshInv'
  BY <1>1, QuietLists, NamesKept DEF LedgerInv
<1>3. Offered \subseteq Listed /\ Listed \subseteq Volume
  BY OfferedVolumes
<1>4. CASE ClientAttaches(c)
  <2>1. reply[c] \in Offered => Ready(reply[c])'
    BY <1>1, <1>3, <1>4, VolumeAssumption
    DEF ClientAttaches, Moves, Detaches, Deletes, TypeInv, TypeOK, LedgerInv, GivenInv, Ready,
       Thread, Worker, Taker, Instance, Here
  <2>2. /\ \A w \in Volume : w # reply[c] => ebs'[w] = ebs[w] /\ mountedAt'[w] = mountedAt[w]
        /\ \A w \in Volume : ebs[w] # "absent" => ebs'[w] # "absent"
    BY <1>4, InstanceAssumption DEF ClientAttaches, Detaches, Deletes, TypeInv, TypeOK, Here
  <2>3. ReadyKept /\ CreatedInv'
    BY <1>1, <1>2, <2>1, <2>2, OtherVolumesKept
  <2>4. AddInv'
    BY <1>1, <1>4, <2>2, ThreadAssumption
    DEF ClientAttaches, TypeInv, TypeOK, LedgerInv, AddInv, FreshInv, Ready, Here, Moves, Thread, Worker, Taker
  <2> QED BY <1>1, <1>2, <1>4, <2>3, <2>4, ThreadAssumption
      DEF ClientAttaches, Moves, TypeInv, TypeOK, LedgerKept, LedgerInv, DownInv, StartInv, OfferedListed, TakenInv, Holding,
          Thread, Worker, Taker, Main, Quiet
<1>5. CASE ClientAttachFails(c)
  <2>1. reply[c] \in Offered => Ready(reply[c])'
    BY <1>1, <1>3, <1>5, VolumeAssumption
    DEF ClientAttachFails, Moves, Detaches, Deletes, TypeInv, TypeOK, LedgerInv, GivenInv, Ready,
       Thread, Worker, Taker, Instance, Here
  <2>2. /\ \A w \in Volume : w # reply[c] => ebs'[w] = ebs[w] /\ mountedAt'[w] = mountedAt[w]
        /\ \A w \in Volume : ebs[w] # "absent" => ebs'[w] # "absent"
    BY <1>5, InstanceAssumption DEF ClientAttachFails, Detaches, Deletes, TypeInv, TypeOK, Here
  <2>3. ReadyKept /\ CreatedInv'
    BY <1>1, <1>2, <2>1, <2>2, OtherVolumesKept
  <2>4. AddInv'
    BY <1>1, <1>5, <2>2, ThreadAssumption
    DEF ClientAttachFails, TypeInv, TypeOK, LedgerInv, AddInv, FreshInv, Ready, Here, Moves, Thread, Worker, Taker
  <2> QED BY <1>1, <1>2, <1>5, <2>3, <2>4, ThreadAssumption
      DEF ClientAttachFails, Moves, TypeInv, TypeOK, LedgerKept, LedgerInv, DownInv, StartInv, OfferedListed, TakenInv, Holding,
          Thread, Worker, Taker, Main, Quiet
<1>6. CASE ClientMounts(c)
  <2>1. reply[c] \in Offered => Ready(reply[c])'
    BY <1>1, <1>3, <1>6, VolumeAssumption
    DEF ClientMounts, Moves, Detaches, Deletes, TypeInv, TypeOK, LedgerInv, GivenInv, Ready,
       Thread, Worker, Taker, Instance, Here
  <2>2. /\ \A w \in Volume : w # reply[c] => ebs'[w] = ebs[w] /\ mountedAt'[w] = mountedAt[w]
        /\ \A w \in Volume : ebs[w] # "absent" => ebs'[w] # "absent"
    BY <1>6, InstanceAssumption DEF ClientMounts, Detaches, Deletes, TypeInv, TypeOK, Here
  <2>3. ReadyKept /\ CreatedInv'
    BY <1>1, <1>2, <2>1, <2>2, OtherVolumesKept
  <2>4. AddInv'
    BY <1>1, <1>6, <2>2, ThreadAssumption
    DEF ClientMounts, TypeInv, TypeOK, LedgerInv, AddInv, FreshInv, Ready, Here, Moves, Thread, Worker, Taker
  <2> QED BY <1>1, <1>2, <1>6, <2>3, <2>4, ThreadAssumption
      DEF ClientMounts, Moves, TypeInv, TypeOK, LedgerKept, LedgerInv, DownInv, StartInv, OfferedListed, TakenInv, Holding,
          Thread, Worker, Taker, Main, Quiet
<1>7. CASE ClientMountFails(c)
  <2>1. reply[c] \in Offered => Ready(reply[c])'
    BY <1>1, <1>3, <1>7, VolumeAssumption
    DEF ClientMountFails, Moves, Detaches, Deletes, TypeInv, TypeOK, LedgerInv, GivenInv, Ready,
       Thread, Worker, Taker, Instance, Here
  <2>2. /\ \A w \in Volume : w # reply[c] => ebs'[w] = ebs[w] /\ mountedAt'[w] = mountedAt[w]
        /\ \A w \in Volume : ebs[w] # "absent" => ebs'[w] # "absent"
    BY <1>7, InstanceAssumption DEF ClientMountFails, Detaches, Deletes, TypeInv, TypeOK, Here
  <2>3. ReadyKept /\ CreatedInv'
    BY <1>1, <1>2, <2>1, <2>2, OtherVolumesKept
  <2>4. AddInv'
    BY <1>1, <1>7, <2>2, ThreadAssumption
    DEF ClientMountFails, TypeInv, TypeOK, LedgerInv, AddInv, FreshInv, Ready, Here, Moves, Thread, Worker, Taker
  <2> QED BY <1>1, <1>2, <1>7, <2>3, <2>4, ThreadAssumption
      DEF ClientMountFails, Moves, TypeInv, TypeOK, LedgerKept, LedgerInv, DownInv, StartInv, OfferedListed, TakenInv, Holding,
          Thread, Worker, Taker, Main, Quiet
<1>8. CASE ClientDiscards(c)
  <2>1. reply[c] \in Offered => Ready(reply[c])'
    BY <1>1, <1>3, <1>8, VolumeAssumption
    DEF ClientDiscards, Moves, Detaches, Deletes, TypeInv, TypeOK, LedgerInv, GivenInv, Ready,
       Thread, Worker, Taker, Instance, Here
  <2>2. /\ \A w \in Volume : w # reply[c] => ebs'[w] = ebs[w] /\ mountedAt'[w] = mountedAt[w]
        /\ \A w \in Volume : ebs[w] # "absent" => ebs'[w] # "absent"
    BY <1>8, InstanceAssumption DEF ClientDiscards, Detaches, Deletes, TypeInv, TypeOK, Here
  <2>3. ReadyKept /\ CreatedInv'
    BY <1>1, <1>2, <2>1, <2>2, OtherVolumesKept
  <2>4. AddInv'
    BY <1>1, <1>8, <2>2, ThreadAssumption
    DEF ClientDiscards, TypeInv, TypeOK, LedgerInv, AddInv, FreshInv, Ready, Here, Moves, Thread, Worker, Taker
  <2> QED BY <1>1, <1>2, <1>8, <2>3, <2>4, ThreadAssumption
      DEF ClientDiscards, Moves, TypeInv, TypeOK, LedgerKept, LedgerInv, DownInv, StartInv, OfferedListed, TakenInv, Holding,
          Thread, Worker, Taker, Main, Quiet
<1>9. CASE ClientDetaches(c)
  <2>1. reply[c] \in Offered => Ready(reply[c])'
    BY <1>1, <1>3, <1>9, VolumeAssumption
    DEF ClientDetaches, Moves, Detaches, Deletes, TypeInv, TypeOK, LedgerInv, GivenInv, Ready,
       Thread, Worker, Taker, Instance, Here
  <2>2. /\ \A w \in Volume : w # reply[c] => ebs'[w] = ebs[w] /\ mountedAt'[w] = mountedAt[w]
        /\ \A w \in Volume : ebs[w] # "absent" => ebs'[w] # "absent"
    BY <1>9, InstanceAssumption DEF ClientDetaches, Detaches, Deletes, TypeInv, TypeOK, Here
  <2>3. ReadyKept /\ CreatedInv'
    BY <1>1, <1>2, <2>1, <2>2, OtherVolumesKept
  <2>4. AddInv'
    BY <1>1, <1>9, <2>2, ThreadAssumption
    DEF ClientDetaches, TypeInv, TypeOK, LedgerInv, AddInv, FreshInv, Ready, Here, Moves, Thread, Worker, Taker
  <2> QED BY <1>1, <1>2, <1>9, <2>3, <2>4, ThreadAssumption
      DEF ClientDetaches, Moves, TypeInv, TypeOK, LedgerKept, LedgerInv, DownInv, StartInv, OfferedListed, TakenInv, Holding,
          Thread, Worker, Taker, Main, Quiet
<1>10. CASE ClientDeletes(c)
  <2>1. reply[c] \in Offered => Ready(reply[c])'
    BY <1>1, <1>3, <1>10, VolumeAssumption
    DEF ClientDeletes, Moves, Detaches, Deletes, TypeInv, TypeOK, LedgerInv, GivenInv, Ready,
       Thread, Worker, Taker, Instance, Here
  <2>2. /\ \A w \in Volume : w # reply[c] => ebs'[w] = ebs[w] /\ mountedAt'[w] = mountedAt[w]
        /\ \A w \in Volume : ebs[w] # "absent" => ebs'[w] # "absent"
    BY <1>10, InstanceAssumption DEF ClientDeletes, Detaches, Deletes, TypeInv, TypeOK, Here
  <2>3. ReadyKept /\ CreatedInv'
    BY <1>1, <1>2, <2>1, <2>2, OtherVolumesKept
  <2>4. AddInv'
    BY <1>1, <1>10, <2>2, ThreadAssumption
    DEF ClientDeletes, TypeInv, TypeOK, LedgerInv, AddInv, FreshInv, Ready, Here, Moves, Thread, Worker, Taker
  <2> QED BY <1>1, <1>2, <1>10, <2>3, <2>4, ThreadAssumption
      DEF ClientDeletes, Moves, TypeInv, TypeOK, LedgerKept, LedgerInv, DownInv, StartInv, OfferedListed, TakenInv, Holding,
          Thread, Worker, Taker, Main, Quiet
<1> QED BY <1>4, <1>5, <1>6, <1>7, <1>8, <1>9, <1>10

\* The step by which EC2 finishes to detach a volume.
LEMMA EbsVolumeReady ==
  ASSUME TypeInv, LedgerInv, NEW v \in Volume,
         EbsDetached(v)
  PROVE  LedgerKept
<1>1. Quiet /\ UNCHANGED <<vid, reply>>
  BY DEF Quiet, Deletes, listVars, fileVars, ec2Vars, clientVars, localVars,
         EbsDetached
<1>2. Offered' = Offered /\ Listed' = Listed /\ MutexInv' /\ UniqueInv' /\ GivenInv' /\ FreshInv'
  BY <1>1, QuietLists, NamesKept DEF LedgerInv
<1>3. Offered \subseteq Listed /\ Listed \subseteq Volume
  BY OfferedVolumes
<1>4. CASE EbsDetached(v)
  <2>1. OfferedReady /\ v \in Offered => Ready(v)'
    BY <1>1, <1>3, <1>4, VolumeAssumption
    DEF EbsDetached, Moves, Detaches, Deletes, TypeInv, TypeOK, LedgerInv, ReadyKept, OfferedReady, Ready,
       Thread, Worker, Taker, Instance, Here
  <2>2. /\ \A w \in Volume : w # v => ebs'[w] = ebs[w] /\ mountedAt'[w] = mountedAt[w]
        /\ \A w \in Volume : ebs[w] # "absent" => ebs'[w] # "absent"
    BY <1>4, InstanceAssumption DEF EbsDetached, Detaches, Deletes, TypeInv, TypeOK, Here
  <2>3. ReadyKept /\ CreatedInv'
    BY <1>1, <1>2, <2>1, <2>2, OtherVolumesKept
  <2>4. AddInv'
    BY <1>1, <1>4, <2>2, ThreadAssumption
    DEF EbsDetached, TypeInv, TypeOK, LedgerInv, AddInv, FreshInv, Ready, Here, Moves, Thread, Worker, Taker
  <2> QED BY <1>1, <1>2, <1>4, <2>3, <2>4, ThreadAssumption
      DEF EbsDetached, Moves, TypeInv, TypeOK, LedgerKept, LedgerInv, DownInv, StartInv, OfferedListed, TakenInv, Holding,
          Thread, Worker, Taker, Main, Quiet
<1> QED BY <1>4

-----------------------------------------------------------------------------
(* The steps by which a thread or a client learns of a volume.             *)

\* The record a thread reads is a listed one, whatever index it found before.
LEMMA ReadRecordReady ==
  ASSUME TypeInv, LedgerInv, NEW t \in Taker, ReadRecord(t)
  PROVE  LedgerKept
<1>1. Quiet /\ UNCHANGED <<reply, ebs, mountedAt>>
  BY DEF Quiet, listVars, fileVars, ec2Vars, clientVars, ReadRecord
<1>2. /\ Offered' = Offered /\ Listed' = Listed /\ MutexInv' /\ UniqueInv'
      /\ ReadyKept
  BY <1>1, QuietLists DEF LedgerInv, ReadyKept, OfferedReady, Ready
<1>3. Offered \subseteq Listed /\ Listed \subseteq Volume
  BY OfferedVolumes
<1>4. PICK v : v \in Listed \cup {NoVolume} /\ vid' = [vid EXCEPT ![t] = v]
  BY DEF ReadRecord, Listed, Ids
<1>5. t \in Thread /\ t \notin Creator \cup Releaser /\ t # Main
  BY ThreadAssumption DEF Thread, Worker, Taker
<1>6. FreshInv' /\ CreatedInv' /\ GivenInv'
  BY <1>1, <1>2, <1>3, <1>4, <1>5, VolumeAssumption
  DEF TypeInv, TypeOK, LedgerInv, FreshInv, CreatedInv, GivenInv, Thread, Worker
<1>7. DownInv' /\ StartInv' /\ OfferedListed' /\ TakenInv' /\ AddInv'
  BY <1>1, <1>2, <1>4, <1>5
  DEF ReadRecord, Moves, TypeInv, TypeOK, LedgerInv, DownInv, StartInv, OfferedListed, TakenInv, Holding,
      AddInv, Ready, Thread, Worker, Taker, Quiet
<1> QED BY <1>2, <1>6, <1>7 DEF LedgerKept, LedgerInv

\* A client is sent a volume that has been written as taken.
LEMMA SendVolumeReady ==
  ASSUME TypeInv, LedgerInv, NEW c \in Client, SendVolume(c)
  PROVE  LedgerKept
<1>1. Quiet /\ UNCHANGED <<vid, ebs, mountedAt>>
  BY DEF Quiet, listVars, fileVars, ec2Vars, localVars, SendVolume
<1>2. /\ Offered' = Offered /\ Listed' = Listed /\ MutexInv' /\ UniqueInv'
      /\ ReadyKept
  BY <1>1, QuietLists DEF LedgerInv, ReadyKept, OfferedReady, Ready
<1>3. Offered \subseteq Listed /\ Listed \subseteq Volume
  BY OfferedVolumes
<1>4. vid[c] \notin Offered
  BY <1>3, VolumeAssumption DEF SendVolume, Moves, LedgerInv, TakenInv, Holding, Taker
<1>5. PICK v : v \in {reply[c], vid[c]} /\ reply' = [reply EXCEPT ![c] = v]
  BY DEF SendVolume
<1>6. c \in Thread /\ c \notin Creator \cup Releaser /\ c # Main
  BY ThreadAssumption DEF Thread, Worker, Taker
<1>7. FreshInv' /\ CreatedInv' /\ GivenInv'
  BY <1>1, <1>2, <1>4, <1>5, <1>6
  DEF TypeInv, TypeOK, LedgerInv, FreshInv, CreatedInv, GivenInv
<1>8. DownInv' /\ StartInv' /\ OfferedListed' /\ TakenInv' /\ AddInv'
  BY <1>1, <1>2, <1>6
  DEF SendVolume, Moves, TypeInv, TypeOK, LedgerInv, DownInv, StartInv, OfferedListed, TakenInv, Holding,
      AddInv, Ready, Thread, Worker, Taker, Quiet
<1> QED BY <1>2, <1>7, <1>8 DEF LedgerKept, LedgerInv

\* The release thread is given the volume the client had.
LEMMA ClientNotifiesReady ==
  ASSUME TypeInv, LedgerInv, NEW c \in Client, NEW t \in Releaser, ClientNotifies(c, t)
  PROVE  LedgerKept
<1>1. Quiet /\ UNCHANGED <<reply, ebs, mountedAt>>
  BY DEF Quiet, listVars, fileVars, ec2Vars, ClientNotifies
<1>2. /\ Offered' = Offered /\ Listed' = Listed /\ MutexInv' /\ UniqueInv'
      /\ ReadyKept
  BY <1>1, QuietLists DEF LedgerInv, ReadyKept, OfferedReady, Ready
<1>3. t \in Thread /\ t \notin Creator \cup Taker /\ t # Main
  BY ThreadAssumption DEF Thread, Worker, Taker
<1>4. FreshInv' /\ CreatedInv' /\ GivenInv'
  BY <1>1, <1>2, <1>3
  DEF ClientNotifies, TypeInv, TypeOK, LedgerInv, FreshInv, CreatedInv, GivenInv
<1>5. DownInv' /\ StartInv' /\ OfferedListed' /\ TakenInv' /\ AddInv'
  BY <1>1, <1>2, <1>3
  DEF ClientNotifies, TypeInv, TypeOK, LedgerInv, DownInv, StartInv, OfferedListed, TakenInv, Holding,
      AddInv, Ready, Thread, Worker, Taker, Quiet
<1> QED BY <1>2, <1>4, <1>5 DEF LedgerKept, LedgerInv

\* A created volume did not exist before, so nobody knows it.
LEMMA CreateVolumeReady ==
  ASSUME TypeInv, LedgerInv, NEW t \in Creator, CreateVolume(t)
  PROVE  LedgerKept
<1>1. Quiet /\ UNCHANGED <<reply, mountedAt>>
  BY DEF Quiet, listVars, fileVars, clientVars, CreateVolume
<1>2. Offered' = Offered /\ Listed' = Listed /\ MutexInv' /\ UniqueInv'
  BY <1>1, QuietLists DEF LedgerInv
<1>3. Offered \subseteq Listed /\ Listed \subseteq Volume
  BY OfferedVolumes
<1>4. PICK v \in Volume : /\ ebs[v] = "absent" /\ ebs' = [ebs EXCEPT ![v] = "available"]
                          /\ vid' = [vid EXCEPT ![t] = v]
  BY DEF CreateVolume
<1>5. /\ v \notin Listed /\ v # NoVolume
      /\ \A u \in Thread : vid[u] # v
      /\ \A c \in Client : reply[c] # v
  BY <1>4, VolumeAssumption DEF LedgerInv, CreatedInv
<1>6. t \in Thread /\ t \notin Taker \cup Releaser /\ t # Main
  BY ThreadAssumption DEF Thread, Worker, Taker
<1>7. ReadyKept
  BY <1>1, <1>2, <1>3, <1>4, <1>5 DEF TypeInv, TypeOK, LedgerInv, ReadyKept, OfferedReady, Ready
<1>8. FreshInv' /\ CreatedInv' /\ GivenInv'
  BY <1>1, <1>2, <1>3, <1>4, <1>5, <1>6
  DEF TypeInv, TypeOK, LedgerInv, FreshInv, CreatedInv, GivenInv, Thread, Worker
<1>9. DownInv' /\ StartInv' /\ OfferedListed'
  BY <1>1, <1>2, <1>6
  DEF CreateVolume, Moves, TypeInv, TypeOK, LedgerInv, DownInv, StartInv, OfferedListed,
      Thread, Worker, Quiet
<1>10. TakenInv'
  BY <1>1, <1>2, <1>4, <1>6
  DEF CreateVolume, Moves, TypeInv, TypeOK, LedgerInv, TakenInv, Holding, Thread, Worker, Taker, Quiet
<1>11. AddInv'
  BY <1>1, <1>4, <1>5, <1>6
  DEF CreateVolume, Moves, TypeInv, TypeOK, LedgerInv, AddInv, Ready, Thread, Worker
<1> QED BY <1>2, <1>7, <1>8, <1>9, <1>10, <1>11 DEF LedgerKept, LedgerInv

\* A creator that gives its volume up forgets it.
LEMMA GiveUpReady ==
  ASSUME TypeInv, LedgerInv, NEW t \in Creator, DeleteUnattached(t) \/ MountGivenUp(t)
  PROVE  LedgerKept
<1>1. Quiet /\ UNCHANGED reply /\ vid' = [vid EXCEPT ![t] = NoVolume]
  BY DEF Quiet, listVars, fileVars, clientVars, DeleteUnattached, MountGivenUp
<1>2. Offered' = Offered /\ Listed' = Listed /\ MutexInv' /\ UniqueInv'
  BY <1>1, QuietLists DEF LedgerInv
<1>3. Offered \subseteq Listed /\ Listed \subseteq Volume
  BY OfferedVolumes
<1>4. t \in Thread /\ t \notin Taker \cup Releaser /\ t # Main
  BY ThreadAssumption DEF Thread, Worker, Taker
<1>5. vid[t] \notin Offered
  BY <1>3, VolumeAssumption DEF LedgerInv, FreshInv
<1>6. /\ \A w \in Volume : w # vid[t] => ebs'[w] = ebs[w] /\ mountedAt'[w] = mountedAt[w]
      /\ \A w \in Volume : ebs[w] # "absent" => ebs'[w] # "absent"
  BY DEF DeleteUnattached, MountGivenUp, Detaches, Deletes, TypeInv, TypeOK
<1>7. ReadyKept
  BY <1>2, <1>3, <1>5, <1>6 DEF LedgerInv, ReadyKept, OfferedReady, Ready
<1>8. FreshInv' /\ CreatedInv' /\ GivenInv'
  BY <1>1, <1>2, <1>3, <1>4, <1>6, VolumeAssumption
  DEF TypeInv, TypeOK, LedgerInv, FreshInv, CreatedInv, GivenInv, Thread, Worker
<1>9. DownInv' /\ StartInv' /\ OfferedListed' /\ TakenInv'
  BY <1>1, <1>2, <1>4
  DEF DeleteUnattached, MountGivenUp, Moves, TypeInv, TypeOK, LedgerInv, DownInv, StartInv, OfferedListed,
      TakenInv, Holding, Thread, Worker, Taker, Quiet
<1>10. AddInv'
  BY <1>1, <1>4, <1>6
  DEF DeleteUnattached, MountGivenUp, Moves, TypeInv, TypeOK, LedgerInv, AddInv, FreshInv, Ready,
      Thread, Worker
<1> QED BY <1>2, <1>7, <1>8, <1>9, <1>10 DEF LedgerKept, LedgerInv

-----------------------------------------------------------------------------
(* Start-up.                                                               *)

\* The steps of main that only move on to the next record.
LEMMA MainControlReady ==
  ASSUME TypeInv, LedgerInv, NEW i, RemountEnds \/ RemountKeeps(i)
  PROVE  LedgerKept
<1>1. Quiet /\ UNCHANGED <<vid, reply, ebs, mountedAt>>
  BY DEF Quiet, listVars, fileVars, ec2Vars, clientVars, RemountEnds, RemountKeeps
<1>2. /\ Offered' = Offered /\ Listed' = Listed /\ MutexInv' /\ UniqueInv'
      /\ ReadyKept /\ CreatedInv' /\ GivenInv' /\ FreshInv'
  BY <1>1, QuietLists, VolumesKept DEF LedgerInv
<1>3. pc[Main] = "remount" /\ wr[Main] = "no" /\ \E q \in {"remount", "loop"} : pc' = [pc EXCEPT ![Main] = q]
  BY DEF RemountEnds, RemountKeeps, Remounts, Moves
<1>4. DownInv' /\ StartInv' /\ OfferedListed' /\ TakenInv' /\ AddInv'
  BY <1>1, <1>2, <1>3, ThreadAssumption
  DEF TypeInv, TypeOK, LedgerKept, LedgerInv, DownInv, StartInv, OfferedListed, TakenInv, Holding, AddInv, Ready,
      Thread, Worker, Taker, Main, Quiet
<1> QED BY <1>2, <1>4 DEF LedgerKept, LedgerInv

\* An idle volume of the list never needs to be mounted.
LEMMA NothingToMount ==
  ASSUME OfferedReady, NEW i \in DOMAIN m_volumes
  PROVE  ~NeedsMount(m_volumes[i])
BY DEF OfferedReady, Ready, Offered, Idle, IdleAt, NeedsMount

\* An empty list offers nothing.
LEMMA EmptyLists == Idle(<<>>) = {} /\ Ids(<<>>) = {} /\ Unique(<<>>)
BY DEF Idle, IdleAt, Ids, Unique

\* The daemon loads what the file offers.
LEMMA LoadFileReady ==
  ASSUME TypeInv, LedgerInv, LoadFile
  PROVE  LedgerKept
<1>1. /\ pc[Main] = "down" /\ pc' = [pc EXCEPT ![Main] = "remount"] /\ m_volumes' = volumeFile
      /\ UNCHANGED <<wr, volumeFile, buf, vid, reply, ebs, mountedAt>>
  BY DEF LoadFile, ec2Vars, clientVars
<1>2. /\ \A t \in Thread : wr[t] = "no" /\ buf[t] = <<>>
      /\ \A t \in Worker : pc[t] \in {"off", "done"}
  BY <1>1 DEF LedgerInv, DownInv, MutexInv
<1>3. Offered' \subseteq Offered /\ Offered' \subseteq Ids(m_volumes)' /\ Listed' \subseteq Listed
  <2>1. Offered' = Idle(volumeFile) /\ Listed' = Ids(volumeFile)
    BY <1>1, <1>2, EmptyLists DEF Offered, Listed
  <2>2. Idle(volumeFile) \subseteq Ids(volumeFile)
    BY DEF Idle, IdleAt, Ids
  <2> QED BY <1>1, <2>1, <2>2 DEF Offered, Listed
<1>4. MutexInv' /\ UniqueInv'
  BY <1>1 DEF LedgerInv, MutexInv, UniqueInv
<1>5. ReadyKept /\ CreatedInv' /\ GivenInv' /\ FreshInv'
  BY <1>1, <1>3, VolumesKept
<1>6. pc' \in [Thread -> Control] /\ pc'[Main] = "remount" /\ \A t \in Worker : pc'[t] = pc[t]
  BY <1>1, ThreadAssumption DEF TypeInv, TypeOK, Control, Thread
<1>7. DownInv' /\ StartInv' /\ OfferedListed'
  BY <1>1, <1>2, <1>3, <1>6 DEF DownInv, StartInv, OfferedListed, Thread, Worker
<1>8. TakenInv'
  <2>1. \A t \in Taker : t \in Worker /\ pc'[t] \in {"off", "done"}
    BY <1>2, <1>6 DEF Worker
  <2> QED BY <1>1, <1>6, <2>1 DEF LedgerInv, TakenInv, Holding, Worker
<1>9. AddInv'
  BY <1>2, <1>6 DEF AddInv, Worker
<1> QED BY <1>4, <1>5, <1>7, <1>8, <1>9 DEF LedgerKept, LedgerInv

\* What is left after a stop is what the file offers.
LEMMA CrashReady ==
  ASSUME TypeInv, LedgerInv, Crash
  PROVE  LedgerInv' /\ (~MayReboot => ReadyKept)
<1>1. /\ pc' = [t \in Thread |-> IF t = Main THEN "down" ELSE IF pc[t] = "off" THEN "off" ELSE "done"]
      /\ wr' = [t \in Thread |-> "no"] /\ buf' = [t \in Thread |-> <<>>]
      /\ vid' = [t \in Thread |-> NoVolume] /\ m_volumes' = <<>>
      /\ UNCHANGED <<volumeFile, reply, ebs>> /\ (~MayReboot => mountedAt' = mountedAt)
  BY DEF Crash, clientVars
<1>2. Offered' = Idle(volumeFile) /\ Listed' = Ids(volumeFile)
  BY <1>1, EmptyLists DEF Offered, Listed
<1>3. Offered' \subseteq Offered /\ Listed' \subseteq Listed
  BY <1>2 DEF Offered, Listed
<1>4. MutexInv' /\ UniqueInv'
  BY <1>1, EmptyLists DEF LedgerInv, MutexInv, UniqueInv
<1>5. ~MayReboot => ReadyKept
  BY <1>1, <1>3 DEF LedgerInv, ReadyKept, OfferedReady, Ready
<1>6. NoVolume \notin Offered'
  BY <1>3, OfferedVolumes, VolumeAssumption
<1>7. GivenInv' /\ FreshInv' /\ CreatedInv'
  BY <1>1, <1>3, <1>6 DEF LedgerInv, GivenInv, FreshInv, CreatedInv, Thread, Worker
<1>8. DownInv' /\ StartInv' /\ OfferedListed' /\ TakenInv' /\ AddInv'
  BY <1>1, ThreadAssumption
  DEF DownInv, StartInv, OfferedListed, TakenInv, Holding, AddInv, Thread, Worker, Taker
<1> QED BY <1>4, <1>5, <1>7, <1>8 DEF LedgerInv

-----------------------------------------------------------------------------
(* The steps of write_to_file.                                             *)

\* What is flushed is what was copied, and the list still has it.
LEMMA WriteReady ==
  ASSUME TypeInv, LedgerInv, NEW t \in Thread, ~OpenMayFail, WriteStep(t)
  PROVE  LedgerKept
<1> SUFFICES ASSUME OpenFile(t) \/ CopyRecords(t) \/ CloseFile(t) PROVE LedgerKept
  BY DEF WriteStep, OpenFails
<1>1. UNCHANGED <<m_volumes, vid, reply, ebs, mountedAt, pc>>
  BY DEF OpenFile, CopyRecords, CloseFile, ec2Vars, clientVars, localVars
<1>2. pc[Main] # "down"
  BY DEF LedgerInv, DownInv, OpenFile, CopyRecords, CloseFile
<1>3. /\ Offered' \subseteq Offered /\ Listed' \subseteq Listed /\ MutexInv' /\ UniqueInv' /\ TakenInv'
  <2>1. CASE OpenFile(t)
    <3>1. wr' = [wr EXCEPT ![t] = "open"] /\ volumeFile' = <<>> /\ UNCHANGED buf /\ Unlocked /\ wr[t] = "due"
      BY <2>1 DEF OpenFile
    <3>2. Offered' \subseteq Offered /\ Listed' \subseteq Listed
      BY <1>1, <3>1, EmptyLists DEF Offered, Listed
    <3>3. MutexInv' /\ UniqueInv'
      BY <1>1, <3>1, EmptyLists DEF LedgerInv, MutexInv, UniqueInv, Unlocked, TypeInv, TypeOK
    <3>4. TakenInv'
      BY <1>1, <3>1, <3>2 DEF LedgerInv, TakenInv, TypeInv, TypeOK, Thread, Worker
    <3> QED BY <3>2, <3>3, <3>4
  <2>2. CASE CopyRecords(t)
    <3>1. wr' = [wr EXCEPT ![t] = "copied"] /\ buf' = [buf EXCEPT ![t] = m_volumes]
          /\ UNCHANGED volumeFile /\ wr[t] = "open"
      BY <2>2 DEF CopyRecords
    <3>2. \A u \in Thread : buf'[u] = buf[u] \/ (u = t /\ buf'[u] = m_volumes)
      BY <3>1 DEF TypeInv, TypeOK
    <3>3. Offered' \subseteq Offered /\ Listed' \subseteq Listed
      BY <1>1, <3>1, <3>2 DEF Offered, Listed
    <3>4. MutexInv' /\ UniqueInv'
      BY <1>1, <3>1, <3>2 DEF LedgerInv, MutexInv, UniqueInv, TypeInv, TypeOK
    <3>5. TakenInv'
      BY <1>1, <3>1, <3>2, <3>3 DEF LedgerInv, TakenInv, TypeInv, TypeOK, Thread, Worker
    <3> QED BY <3>3, <3>4, <3>5
  <2>3. CASE CloseFile(t)
    <3>1. wr' = [wr EXCEPT ![t] = "no"] /\ buf' = [buf EXCEPT ![t] = <<>>]
          /\ volumeFile' = buf[t] /\ wr[t] = "copied"
      BY <2>3 DEF CloseFile
    <3>2. \A u \in Thread : buf'[u] = <<>>
      BY <3>1 DEF TypeInv, TypeOK, LedgerInv, MutexInv
    <3>3. /\ Offered' = Idle(m_volumes) \cup Idle(buf[t]) /\ Listed' = Ids(m_volumes) \cup Ids(buf[t])
      BY <1>1, <3>1, <3>2, EmptyLists DEF Offered, Listed
    <3>4. Offered' \subseteq Offered /\ Listed' \subseteq Listed
      BY <3>3 DEF Offered, Listed
    <3>5. MutexInv' /\ UniqueInv'
      BY <1>1, <3>1, <3>2, EmptyLists DEF LedgerInv, MutexInv, UniqueInv, TypeInv, TypeOK
    <3>6. TakenInv'
      <4>1. \A u \in Thread : u # t => wr'[u] = wr[u]
        BY <3>1 DEF TypeInv, TypeOK
      <4> QED BY <1>1, <3>1, <3>2, <3>3, <3>4, <4>1, EmptyLists
              DEF LedgerInv, TakenInv, Thread, Worker
    <3> QED BY <3>4, <3>5, <3>6
  <2> QED BY <2>1, <2>2, <2>3
<1>4. ReadyKept /\ CreatedInv' /\ GivenInv' /\ FreshInv'
  BY <1>1, <1>3, VolumesKept
<1>5. DownInv' /\ AddInv'
  BY <1>1, <1>2 DEF LedgerInv, DownInv, AddInv, Ready
<1>6. wr[t] # "no" /\ \E q \in {"no", "open", "copied"} : wr' = [wr EXCEPT ![t] = q]
  BY DEF OpenFile, CopyRecords, CloseFile
<1>7. StartInv'
  BY <1>1, <1>6 DEF LedgerInv, StartInv, TypeInv, TypeOK, Thread
<1>8. OfferedListed'
  <2>1. CASE wr[Main] # "due"
    BY <1>1, <1>3, <2>1 DEF LedgerInv, OfferedListed
  <2>2. CASE wr[Main] = "due" /\ t # Main
    BY <1>6, <2>2 DEF OfferedListed, TypeInv, TypeOK
  <2>3. CASE wr[Main] = "due" /\ t = Main
    <3>1. OpenFile(t)
      BY <2>3 DEF CopyRecords, CloseFile
    <3>2. volumeFile' = <<>> /\ \A u \in Thread : buf'[u] = <<>>
      BY <3>1 DEF OpenFile, Unlocked, LedgerInv, MutexInv
    <3>3. Offered' = Idle(m_volumes)
      BY <1>1, <3>2, EmptyLists DEF Offered
    <3> QED BY <1>1, <3>3 DEF OfferedListed, Idle, IdleAt, Ids
  <2> QED BY <2>1, <2>2, <2>3
<1> QED BY <1>3, <1>4, <1>5, <1>7, <1>8 DEF LedgerKept, LedgerInv

-----------------------------------------------------------------------------
(* The steps that change the list.                                         *)

\* A list that offers no more than before, to be written by t.
LEMMA StoreLists ==
  ASSUME TypeInv, LedgerInv, NEW t \in Thread, wr[t] = "no", NEW s, Stores(t, s),
         UNCHANGED <<volumeFile, buf>>,
         Idle(s) \subseteq Idle(m_volumes), Ids(s) \subseteq Ids(m_volumes), Unique(s)
  PROVE  Offered' \subseteq Offered /\ Listed' \subseteq Listed /\ MutexInv' /\ UniqueInv'
<1>1. m_volumes' = s /\ wr' = [wr EXCEPT ![t] = "due"]
  BY DEF Stores
<1>2. Offered' \subseteq Offered /\ Listed' \subseteq Listed
  BY <1>1 DEF Offered, Listed
<1>3. UniqueInv'
  BY <1>1 DEF LedgerInv, UniqueInv
<1>4. MutexInv'
  BY <1>1 DEF LedgerInv, MutexInv, TypeInv, TypeOK
<1> QED BY <1>2, <1>3, <1>4

\* update() with a status that is not idle, by the thread that took the volume.
LEMMA MarkReady ==
  ASSUME TypeInv, LedgerInv, NEW t \in Taker, wr[t] = "no", pc[t] \notin {"off", "done"},
         NEW st \in Status \ {"idle"}, NEW at \in Client \cup {NoPlace}, UpdatesStatus(t, st, at),
         NEW q \in {"umount", "del", "done"}, pc' = [pc EXCEPT ![t] = q],
         NEW v \in {vid[t], NoVolume}, vid' = [vid EXCEPT ![t] = v], q # "del" \/ v = NoVolume,
         UNCHANGED <<volumeFile, buf, reply, ebs, mountedAt>>
  PROVE  LedgerKept
<1>1. t \in Thread /\ t # Main /\ t \notin Creator \cup Releaser /\ t \in Worker
  BY ThreadAssumption DEF Thread, Worker, Taker
<1>2. pc[Main] # "down" /\ wr[Main] = "no" /\ pc'[Main] # "down"
  BY <1>1 DEF LedgerInv, DownInv, StartInv, TypeInv, TypeOK
<1>3. buf[t] = <<>> /\ m_volumes \in Seq(Record)
  BY <1>1 DEF LedgerInv, MutexInv, TypeInv, TypeOK
<1>4. /\ Offered' \subseteq Offered /\ Listed' \subseteq Listed /\ MutexInv' /\ UniqueInv'
      /\ Ids(m_volumes)' = Ids(m_volumes) /\ Idle(m_volumes)' \subseteq Idle(m_volumes)
      /\ vid[t] \notin Idle(m_volumes)'
      /\ \/ wr' = wr /\ vid[t] \notin Offered'
         \/ wr' = [wr EXCEPT ![t] = "due"]
  <2>1. CASE vid[t] \in Ids(m_volumes)
    <3> DEFINE s == Updated(m_volumes, vid[t], st, at)
    <3>1. Stores(t, s)
      BY <2>1 DEF UpdatesStatus
    <3>2. /\ Ids(s) = Ids(m_volumes) /\ Idle(s) \subseteq Idle(m_volumes)
          /\ Unique(s) /\ vid[t] \notin Idle(s)
      BY <1>3, UpdatedList DEF LedgerInv, UniqueInv
    <3> HIDE DEF s
    <3>3. Offered' \subseteq Offered /\ Listed' \subseteq Listed /\ MutexInv' /\ UniqueInv'
      BY <1>1, <3>1, <3>2, StoreLists
    <3> QED BY <3>1, <3>2, <3>3 DEF Stores
  <2>2. CASE vid[t] \notin Ids(m_volumes)
    <3>1. Quiet
      BY <2>2 DEF UpdatesStatus, Quiet, listVars
    <3>2. Offered' = Offered /\ Listed' = Listed /\ MutexInv' /\ UniqueInv'
      BY <3>1, QuietLists DEF LedgerInv
    <3>3. Idle(m_volumes) \subseteq Offered /\ vid[t] \notin Offered
      BY <1>2, <2>2 DEF LedgerInv, OfferedListed, Offered
    <3> QED BY <3>1, <3>2, <3>3 DEF Quiet
  <2> QED BY <2>1, <2>2
<1>5. ReadyKept /\ DownInv' /\ StartInv' /\ OfferedListed' /\ AddInv'
  BY <1>1, <1>2, <1>4
  DEF LedgerInv, ReadyKept, OfferedReady, Ready, DownInv, StartInv, OfferedListed, AddInv, TypeInv, TypeOK, Thread, Worker
<1>6. GivenInv' /\ FreshInv' /\ CreatedInv'
  BY <1>1, <1>4 DEF LedgerInv, GivenInv, FreshInv, CreatedInv, TypeInv, TypeOK, Thread, Worker
<1>7. TakenInv'
  <2>1. \A u \in Taker \ {t} : u \in Thread /\ wr'[u] = wr[u] /\ vid'[u] = vid[u] /\ pc'[u] = pc[u]
    BY <1>1, <1>4 DEF TypeInv, TypeOK, Thread, Worker
  <2>2. vid'[t] = v /\ pc'[t] = q
    BY <1>1 DEF TypeInv, TypeOK
  <2>3. wr'[t] = "no" => vid[t] \notin Offered'
    BY <1>1, <1>4 DEF TypeInv, TypeOK
  <2> QED BY <1>3, <1>4, <2>1, <2>2, <2>3, EmptyLists DEF LedgerInv, TakenInv, Holding
<1> QED BY <1>4, <1>5, <1>6, <1>7 DEF LedgerKept, LedgerInv

\* remove() of a volume that is no longer offered.
LEMMA DropReady ==
  ASSUME TypeInv, LedgerInv, NEW t \in Taker \cup Releaser, wr[t] = "no",
         pc[t] \notin {"off", "done"}, vid[t] \notin Offered, Stores(t, Erased(m_volumes, vid[t])),
         NEW q \in {"del", "done"}, pc' = [pc EXCEPT ![t] = q],
         UNCHANGED <<volumeFile, buf, vid, reply, ebs, mountedAt>>
  PROVE  LedgerKept
<1> DEFINE s == Erased(m_volumes, vid[t])
<1>1. t \in Thread /\ t # Main /\ t \notin Creator /\ t \in Worker
  BY ThreadAssumption DEF Thread, Worker, Taker
<1>2. pc[Main] # "down" /\ wr[Main] = "no" /\ pc'[Main] # "down"
  BY <1>1 DEF LedgerInv, DownInv, StartInv, TypeInv, TypeOK
<1>3. /\ Ids(s) \subseteq Ids(m_volumes) /\ Ids(m_volumes) \ {vid[t]} \subseteq Ids(s)
      /\ Idle(s) \subseteq Idle(m_volumes) /\ Unique(s)
  BY ErasedList DEF LedgerInv, UniqueInv, TypeInv, TypeOK
<1>4. m_volumes' = s /\ wr' = [wr EXCEPT ![t] = "due"]
  BY DEF Stores
<1>5. Stores(t, s)
  OBVIOUS
<1> HIDE DEF s
<1>6. Offered' \subseteq Offered /\ Listed' \subseteq Listed /\ MutexInv' /\ UniqueInv'
  BY <1>1, <1>3, <1>5, StoreLists
<1>7. ReadyKept /\ CreatedInv' /\ GivenInv' /\ FreshInv'
  BY <1>6, VolumesKept
<1>8. DownInv' /\ StartInv' /\ OfferedListed' /\ AddInv'
  BY <1>1, <1>2, <1>3, <1>4, <1>6
  DEF LedgerInv, DownInv, StartInv, OfferedListed, AddInv, Ready, TypeInv, TypeOK, Thread, Worker
<1>9. TakenInv'
  <2>1. \A u \in Taker \ {t} : wr'[u] = wr[u] /\ pc'[u] = pc[u]
    BY <1>1, <1>4 DEF TypeInv, TypeOK, Thread, Worker
  <2>2. pc'[t] = q /\ wr'[t] = "due"
    BY <1>1, <1>4 DEF TypeInv, TypeOK
  <2>3. Idle(m_volumes') \subseteq Idle(m_volumes) /\ Idle(m_volumes) \cup Idle(buf[t]) \subseteq Offered
    BY <1>1, <1>3, <1>4 DEF Offered
  <2> QED BY <1>6, <2>1, <2>2, <2>3 DEF LedgerInv, TakenInv, Holding
<1> QED BY <1>6, <1>7, <1>8, <1>9 DEF LedgerKept, LedgerInv

\* Only a volume that is attached and mounted is offered anew.
LEMMA AddVolumeReady ==
  ASSUME TypeInv, LedgerInv, NEW t \in Creator, AddVolume(t)
  PROVE  LedgerKept
<1> DEFINE v == vid[t]
           s == Append(m_volumes, IdleRecord(v))
<1>1. /\ t \in Thread /\ t # Main /\ t \notin Taker \cup Releaser /\ t \in Worker
      /\ Main \in Thread /\ Creator \subseteq Thread /\ Taker \subseteq Thread /\ Releaser \subseteq Thread
  BY ThreadAssumption DEF Thread, Worker, Taker
<1>2. /\ pc[t] = "add" /\ wr[t] = "no" /\ pc' = [pc EXCEPT ![t] = "dec"]
      /\ m_volumes' = s /\ wr' = [wr EXCEPT ![t] = "due"]
      /\ vid' = [vid EXCEPT ![t] = NoVolume]
      /\ UNCHANGED <<volumeFile, buf, reply, ebs, mountedAt>>
  BY DEF AddVolume, Moves, Stores, fileVars, ec2Vars, clientVars
<1>3. v \in Volume /\ v # NoVolume
  BY <1>1, <1>2, VolumeAssumption DEF TypeInv, TypeOK
<1>4. /\ v \notin Listed /\ Ready(v)
      /\ \A u \in Thread \ {t} : vid[u] # v
      /\ \A c \in Client : reply[c] # v
  BY <1>2, <1>3 DEF LedgerInv, FreshInv, AddInv
<1>5. Ids(s) = Ids(m_volumes) \cup {v} /\ Idle(s) = Idle(m_volumes) \cup {v} /\ Unique(s)
  BY <1>3, <1>4, AppendedList DEF LedgerInv, UniqueInv, TypeInv, TypeOK, Listed
<1> HIDE DEF s
<1>6. Offered' = Offered \cup {v} /\ Listed' = Listed \cup {v}
  BY <1>2, <1>5 DEF Offered, Listed
<1>7. /\ pc[Main] # "down" /\ pc[Main] # "remount" /\ wr[Main] = "no"
      /\ pc'[Main] = pc[Main] /\ wr'[Main] = "no"
  BY <1>1, <1>2 DEF LedgerInv, DownInv, StartInv, TypeInv, TypeOK
<1>8. MutexInv' /\ UniqueInv'
  BY <1>1, <1>2, <1>5 DEF LedgerInv, MutexInv, UniqueInv, TypeInv, TypeOK
<1>9. DownInv' /\ StartInv' /\ OfferedListed' /\ ReadyKept
  BY <1>2, <1>4, <1>5, <1>6, <1>7 DEF LedgerInv, DownInv, StartInv, OfferedListed, ReadyKept, OfferedReady, Ready
<1>10. \A u \in Thread \ {t} : vid'[u] = vid[u] /\ pc'[u] = pc[u] /\ wr'[u] = wr[u]
  BY <1>1, <1>2 DEF TypeInv, TypeOK
<1>11. vid'[t] = NoVolume /\ pc'[t] = "dec"
  BY <1>1, <1>2 DEF TypeInv, TypeOK
<1> HIDE DEF v
<1>12. TakenInv'
  BY <1>1, <1>2, <1>4, <1>5, <1>6, <1>10 DEF LedgerInv, TakenInv, Holding
<1>13. GivenInv' /\ AddInv'
  BY <1>1, <1>2, <1>4, <1>6, <1>10, <1>11 DEF LedgerInv, GivenInv, AddInv, Ready
<1>14. FreshInv'
  BY <1>1, <1>2, <1>4, <1>6, <1>10, <1>11 DEF LedgerInv, FreshInv
<1>15. CreatedInv'
  BY <1>1, <1>2, <1>4, <1>6, <1>10, <1>11 DEF LedgerInv, CreatedInv, Ready, Here
<1> QED BY <1>8, <1>9, <1>12, <1>13, <1>14, <1>15 DEF LedgerKept, LedgerInv

-----------------------------------------------------------------------------
(* LedgerInv is inductive.                                                  *)

\* The steps of Volumes::release, whoever runs it.
LEMMA ReleaseReady ==
  ASSUME TypeInv, LedgerInv, NEW t \in Taker, Release(t)
  PROVE  LedgerKept
<1>1. CASE MarkTaken(t)
  <2>1. vid' = [vid EXCEPT ![t] = vid[t]]
    BY <1>1 DEF MarkTaken, localVars, TypeInv, TypeOK
  <2>2. UNCHANGED <<volumeFile, buf, reply, ebs, mountedAt>>
    BY <1>1 DEF MarkTaken, fileVars, ec2Vars, clientVars
  <2>3. UpdatesStatus(t, "inprogress", NoPlace) /\ pc[t] = "take" /\ wr[t] = "no"
        /\ pc' = [pc EXCEPT ![t] = "umount"]
    BY <1>1 DEF MarkTaken
  <2> QED BY <2>1, <2>2, <2>3, MarkReady DEF Status
<1>2. CASE MarkUndetached(t)
  <2>1. UNCHANGED <<volumeFile, buf, reply, ebs, mountedAt>>
    BY <1>2 DEF MarkUndetached, fileVars, ec2Vars, clientVars
  <2>2. UpdatesStatus(t, "failedToDetach", NoPlace) /\ pc[t] = "undetached" /\ wr[t] = "no"
        /\ vid' = [vid EXCEPT ![t] = NoVolume]
        /\ \E q \in {"umount", "del", "done"} : pc' = [pc EXCEPT ![t] = q]
    BY <1>2 DEF MarkUndetached, Moves
  <2> QED BY <2>1, <2>2, MarkReady DEF Status
<1> QED BY <1>1, <1>2, ReleaseControlReady, ReadRecordReady, TakerVolumeReady DEF Release

\* The steps of clientDiskAquire_handler after release.
LEMMA AquireReady ==
  ASSUME TypeInv, LedgerInv, NEW c \in Client, Aquire(c)
  PROVE  LedgerKept
<1>1. CASE AckOK(c)
  <2>1. vid' = [vid EXCEPT ![c] = vid[c]]
    BY <1>1 DEF AckOK, localVars, TypeInv, TypeOK
  <2>2. UNCHANGED <<volumeFile, buf, reply, ebs, mountedAt>>
    BY <1>1 DEF AckOK, fileVars, ec2Vars, clientVars
  <2>3. UpdatesStatus(c, "used", c) /\ pc[c] = "ack" /\ wr[c] = "no"
        /\ pc' = [pc EXCEPT ![c] = "done"]
    BY <1>1 DEF AckOK, Moves
  <2> QED BY <2>1, <2>2, <2>3, MarkReady DEF Status, Taker
<1>2. CASE AckFailed(c) \/ ConnectionLost(c)
  <2>1. UNCHANGED <<volumeFile, buf, vid, reply, ebs, mountedAt>>
    BY <1>2 DEF AckFailed, ConnectionLost, fileVars, ec2Vars, clientVars, localVars
  <2>2. pc[c] = "ack" /\ wr[c] = "no" /\ Stores(c, Erased(m_volumes, vid[c]))
        /\ \E q \in {"del", "done"} : pc' = [pc EXCEPT ![c] = q]
    BY <1>2 DEF AckFailed, ConnectionLost, Moves
  <2>3. vid[c] \notin Offered
    BY <2>2, OfferedVolumes, VolumeAssumption DEF LedgerInv, TakenInv, Holding, Taker
  <2> QED BY <2>1, <2>2, <2>3, DropReady DEF Taker
<1> QED BY <1>1, <1>2, SendVolumeReady DEF Aquire

\* remove() by a remover, whose volume is marked, and by a release handler.
LEMMA DropRecordReady ==
  ASSUME TypeInv, LedgerInv, NEW t \in Remover \cup Releaser, DropRecord(t)
  PROVE  LedgerKept
<1>1. UNCHANGED <<volumeFile, buf, vid, reply, ebs, mountedAt>>
  BY DEF DropRecord, fileVars, ec2Vars, clientVars, localVars
<1>2. pc[t] = "drop" /\ wr[t] = "no" /\ Stores(t, Erased(m_volumes, vid[t]))
      /\ pc' = [pc EXCEPT ![t] = "done"]
  BY DEF DropRecord, Moves
<1>3. vid[t] \notin Offered
  BY <1>2, OfferedVolumes, VolumeAssumption DEF LedgerInv, TakenInv, GivenInv, Holding, Taker
<1> QED BY <1>1, <1>2, <1>3, DropReady DEF Taker

\* remount mounts a volume that is attached here.
LEMMA RemountMountsReady ==
  ASSUME TypeInv, LedgerInv, NEW i, RemountMounts(i)
  PROVE  LedgerKept
<1> DEFINE v == m_volumes[i].id
<1>1. Quiet /\ UNCHANGED <<vid, reply, ebs>> /\ mountedAt' = [mountedAt EXCEPT ![v] = Here]
  BY DEF Quiet, listVars, fileVars, clientVars, RemountMounts
<1>2. /\ pc' = [pc EXCEPT ![Main] = "remount"] /\ pc[Main] = "remount" /\ wr[Main] = "no"
      /\ i \in DOMAIN m_volumes /\ ebs[v] = Here
  BY DEF RemountMounts, Remounts, Moves
<1>3. v \in Volume
  <2>1. m_volumes[i] \in Record
    BY <1>2 DEF TypeInv, TypeOK
  <2> QED BY <2>1 DEF Record
<1>4. pc' = pc
  BY <1>2 DEF TypeInv, TypeOK
<1> HIDE DEF v
<1>5. \A w \in Volume : Ready(w) => Ready(w)'
  BY <1>1 DEF TypeInv, TypeOK, Ready
<1>6. /\ Offered' = Offered /\ Listed' = Listed /\ MutexInv' /\ UniqueInv' /\ GivenInv' /\ FreshInv'
  BY <1>1, QuietLists, NamesKept DEF LedgerInv
<1>7. ReadyKept /\ CreatedInv'
  BY <1>1, <1>5, <1>6, OfferedVolumes DEF ReadyKept, OfferedReady, LedgerInv, CreatedInv
<1>8. DownInv' /\ StartInv' /\ OfferedListed' /\ TakenInv'
  BY <1>1, <1>4, <1>6 DEF LedgerInv, Quiet, DownInv, StartInv, OfferedListed, TakenInv
<1>9. AddInv'
  BY <1>2, <1>4 DEF LedgerInv, StartInv, AddInv, Worker
<1> QED BY <1>6, <1>7, <1>8, <1>9 DEF LedgerKept, LedgerInv

\* remount drops a volume that it cannot mount: none that is ready.
LEMMA RemountDropsReady ==
  ASSUME TypeInv, LedgerInv, NEW i, RemountDrops(i)
  PROVE  LedgerKept
<1> DEFINE v == m_volumes[i].id
           s == Erased(m_volumes, v)
<1>1. /\ pc' = [pc EXCEPT ![Main] = "remount"] /\ pc[Main] = "remount" /\ wr[Main] = "no"
      /\ i \in DOMAIN m_volumes /\ NeedsMount(m_volumes[i]) /\ Stores(Main, s)
      /\ UNCHANGED <<volumeFile, buf, vid, reply, mountedAt>>
      /\ Detaches(v) \/ UNCHANGED ebs
  BY DEF RemountDrops, Remounts, Moves, fileVars, clientVars
<1>2. pc' = pc /\ Main \in Thread
  BY <1>1 DEF TypeInv, TypeOK, Thread
<1>3. m_volumes' = s /\ wr' = [wr EXCEPT ![Main] = "due"]
  BY <1>1 DEF Stores
<1>4. Ids(s) \subseteq Ids(m_volumes) /\ Idle(s) \subseteq Idle(m_volumes) /\ Unique(s)
  BY ErasedList DEF LedgerInv, UniqueInv, TypeInv, TypeOK
<1>5. \A w \in Volume : ebs[w] # "absent" => ebs'[w] # "absent"
  BY <1>1 DEF Detaches, TypeInv, TypeOK
<1>6. ReadyKept
  BY <1>1, NothingToMount DEF ReadyKept
<1> HIDE DEF s, v
<1>7. Offered' \subseteq Offered /\ Listed' \subseteq Listed /\ MutexInv' /\ UniqueInv'
  BY <1>1, <1>2, <1>4, StoreLists
<1>8. GivenInv' /\ FreshInv'
  BY <1>1, <1>7, NamesKept
<1>9. CreatedInv'
  BY <1>1, <1>5, <1>7, OfferedVolumes DEF LedgerInv, CreatedInv, TypeInv, TypeOK
<1>10. \A t \in Worker : wr'[t] = "no" /\ pc'[t] \in {"off", "done"}
  BY <1>1, <1>2, <1>3, ThreadAssumption DEF LedgerInv, StartInv, TypeInv, TypeOK, Thread
<1>11. DownInv' /\ StartInv' /\ OfferedListed'
  BY <1>1, <1>2, <1>3, <1>10 DEF DownInv, StartInv, OfferedListed, TypeInv, TypeOK
<1>12. TakenInv' /\ AddInv'
  BY <1>1, <1>2, <1>10 DEF LedgerInv, TakenInv, Holding, AddInv, Worker
<1> QED BY <1>6, <1>7, <1>8, <1>9, <1>11, <1>12 DEF LedgerKept, LedgerInv

\* The steps of start-up.
LEMMA StartUpReady ==
  ASSUME TypeInv, LedgerInv, StartUp
  PROVE  LedgerKept
BY MainControlReady, RemountMountsReady, RemountDropsReady, LoadFileReady DEF StartUp

\* At the start nothing is on its way, and the volumes of Loaded are mounted.
LEMMA InitReady == Init => ReadyInv
<1> SUFFICES ASSUME Init PROVE ReadyInv
  OBVIOUS
<1>1. /\ wr = [t \in Thread |-> "no"] /\ buf = [t \in Thread |-> <<>>]
      /\ vid = [t \in Thread |-> NoVolume] /\ reply = [c \in Client |-> NoVolume]
      /\ pc = [t \in Thread |-> IF t = Main THEN "loop" ELSE "off"]
  BY DEF Init
<1>2. m_volumes = volumeFile /\ DOMAIN m_volumes = DOMAIN Loaded
      /\ \A i \in DOMAIN Loaded : m_volumes[i].id = Loaded[i]
  BY DEF Init, IdleRecord
<1>3. /\ MutexInv /\ UniqueInv
  BY <1>1, <1>2, EmptyLists, LoadedAssumption DEF MutexInv, UniqueInv, Unique
<1>4. /\ Offered \subseteq Ids(m_volumes) /\ Listed = Ids(m_volumes)
  BY <1>1, <1>2, EmptyLists DEF Offered, Listed, Ids, Idle, IdleAt
<1>5. \A v \in Ids(m_volumes) : v \in Volume /\ Ready(v)
  <2>1. \A i \in DOMAIN Loaded : Loaded[i] \in Volume
    BY LoadedAssumption
  <2> QED BY <1>2, <2>1 DEF Init, Ids, Ready
<1>6. OfferedReady /\ OfferedListed
  BY <1>4, <1>5 DEF OfferedReady, OfferedListed
<1>7. GivenInv /\ FreshInv
  BY <1>1, <1>4, <1>5, VolumeAssumption DEF GivenInv, FreshInv, Thread, Worker
<1>8. CreatedInv
  BY <1>1, <1>4, <1>5 DEF CreatedInv, Ready, Here
<1>9. DownInv /\ StartInv /\ TakenInv /\ AddInv
  BY <1>1, ThreadAssumption DEF DownInv, StartInv, TakenInv, AddInv, Holding, Thread, Worker, Taker, Main
<1> QED BY <1>3, <1>6, <1>7, <1>8, <1>9 DEF ReadyInv, LedgerInv

\* LedgerInv is inductive, given the types; while the machine stays up, what is
\* offered stays ready.
LEMMA NextLedger ==
  ASSUME ~OpenMayFail, TypeInv, LedgerInv, [Next]_vars
  PROVE  LedgerInv' /\ (~MayReboot => ReadyKept)
<1>1. CASE UNCHANGED vars
  <2>1. Quiet /\ UNCHANGED <<vid, reply, ebs, mountedAt, pc>>
    BY <1>1 DEF vars, Quiet, listVars, fileVars, ec2Vars, clientVars, localVars
  <2>2. Offered' = Offered /\ Listed' = Listed /\ MutexInv' /\ UniqueInv'
        /\ ReadyKept /\ CreatedInv' /\ GivenInv' /\ FreshInv'
    BY <2>1, QuietLists, VolumesKept DEF LedgerInv
  <2>3. DownInv' /\ StartInv' /\ OfferedListed' /\ TakenInv' /\ AddInv'
    BY <2>1, <2>2
    DEF LedgerInv, Quiet, DownInv, StartInv, OfferedListed, TakenInv, AddInv, Ready
  <2> QED BY <2>2, <2>3 DEF LedgerInv
<1>2. ASSUME NEW t \in Creator, Create(t) \/ SpawnCreator(t) PROVE LedgerKept
  BY <1>2, CreateControlReady, CreatorVolumeReady, CreateVolumeReady, GiveUpReady, AddVolumeReady
  DEF Create
<1>3. ASSUME NEW c \in Client, ClientStep(c) PROVE LedgerKept
  BY <1>3, ClientControlReady, ClientVolumeReady, ClientNotifiesReady DEF ClientStep
<1>4. CASE Crash
  BY <1>4, CrashReady
<1>5. CASE Next
  BY <1>2, <1>3, <1>4, <1>5, WriteReady, ReleaseReady, TakerVolumeReady, AquireReady,
     RemoveControlReady, CheckControlReady, DropRecordReady, EbsVolumeReady, StartUpReady
  DEF Next, LedgerKept
<1> QED BY <1>1, <1>5

\* So is ReadyInv, on a machine that stays up.
LEMMA NextReady ==
  ASSUME ~OpenMayFail, ~MayReboot, TypeInv, ReadyInv, [Next]_vars
  PROVE  ReadyInv'
BY NextLedger DEF ReadyInv, ReadyKept

-----------------------------------------------------------------------------
(* What it is for.                                                         *)

\* With a file that can be written and a machine that stays up, a volume the
\* daemon's list offers as idle is attached and mounted here: for any numbers
\* of volumes, clients and threads, and across any number of abrupt stops.
THEOREM OfferedIsReady ==
  ASSUME ~OpenMayFail, ~MayReboot
  PROVE  Spec => []IdleReady
<1>1. TypeInv /\ ReadyInv => IdleReady
  BY DEF ReadyInv, OfferedReady, Offered, IdleReady
<1>2. TypeInv /\ ReadyInv /\ [Next]_vars => (TypeInv /\ ReadyInv)'
  BY NextType, NextReady
<1>3. Init => TypeInv /\ ReadyInv
  BY InitType, InitReady
<1> QED BY <1>1, <1>2, <1>3, PTL DEF Spec

\* And so is what the file offers, at any moment the daemon may stop.
THEOREM FileIsSafe ==
  ASSUME ~OpenMayFail, ~MayReboot
  PROVE  Spec => []CrashSafe
<1>1. TypeInv /\ ReadyInv => CrashSafe
  BY DEF ReadyInv, OfferedReady, Offered, CrashSafe
<1>2. TypeInv /\ ReadyInv /\ [Next]_vars => (TypeInv /\ ReadyInv)'
  BY NextType, NextReady
<1>3. Init => TypeInv /\ ReadyInv
  BY InitType, InitReady
<1> QED BY <1>1, <1>2, <1>3, PTL DEF Spec

\* What both rest on, and the promise of VolumeLife too, whether or not the machine
\* restarts: nothing that may still be listed is being given away, and what is being
\* made is known to its maker only.
THEOREM LedgerAlways ==
  ASSUME ~OpenMayFail
  PROVE  Spec => []LedgerInv
<1>1. TypeInv /\ LedgerInv /\ [Next]_vars => (TypeInv /\ LedgerInv)'
  BY NextType, NextLedger
<1>2. Init => TypeInv /\ LedgerInv
  BY InitType, InitReady DEF ReadyInv
<1> QED BY <1>1, <1>2, PTL DEF Spec

\* And that all of it is ready, while the machine stays up.
THEOREM ReadyAlways ==
  ASSUME ~OpenMayFail, ~MayReboot
  PROVE  Spec => []ReadyInv
<1>1. TypeInv /\ ReadyInv /\ [Next]_vars => (TypeInv /\ ReadyInv)'
  BY NextType, NextReady
<1>2. Init => TypeInv /\ ReadyInv
  BY InitType, InitReady
<1> QED BY <1>1, <1>2, PTL DEF Spec
=============================================================================
