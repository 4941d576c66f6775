------------------------- MODULE VolumePoolLifeProofs -------------------------
(***************************************************************************)
(* TLAPS proof that VolumePool implements VolumeLife when the file can be  *)
(* opened, whether or not the machine restarts.  Nearly every step only    *)
(* withdraws volumes, or none; AddVolume offers one, SendVolume gives one. *)
(*                                                                         *)
(* Then what the clients can rely on: they are sent volumes that are       *)
(* detached here (DetachedInv), and what the list says they use is what    *)
(* they have mounted (UsedInv, from the answers they have given).          *)
(***************************************************************************)
EXTENDS VolumePoolSafety, VolumePoolLife

-----------------------------------------------------------------------------
(* A handler sends at most once.                                           *)

LEMMA InitSent == Init => SentInv
BY DEF Init, SentInv

LEMMA NextSent ==
  ASSUME TypeInv, SentInv, [Next]_vars
  PROVE  SentInv'
<1>1. Client \subseteq Thread /\ \A c \in Client : c \notin Remover \cup Creator \cup Releaser \cup {Main}
  BY ThreadAssumption DEF Thread, Worker, Taker
<1>2. pc \in [Thread -> Control] /\ reply \in [Client -> Volume \cup {NoVolume}]
  BY DEF TypeInv, TypeOK
<1>3. CASE UNCHANGED <<pc, reply>>
  BY <1>3 DEF SentInv
<1>4. ASSUME NEW t \in Remover \cup Creator \cup Releaser \cup {Main}, NEW p,
             pc' = [pc EXCEPT ![t] = p], reply' = reply
      PROVE  SentInv'
  BY <1>1, <1>2, <1>4 DEF SentInv
<1>5. ASSUME NEW c \in Client, NEW p \in {"ack", "del", "done"},
             pc' = [pc EXCEPT ![c] = p], \A d \in Client \ {c} : reply'[d] = reply[d]
      PROVE  SentInv'
  BY <1>1, <1>2, <1>5 DEF SentInv
<1>6. ASSUME NEW c \in Client, NEW p, pc[c] \notin {"ack", "del", "done"},
             pc' = [pc EXCEPT ![c] = p], reply' = reply
      PROVE  SentInv'
  BY <1>1, <1>2, <1>6 DEF SentInv
<1>7. ASSUME NEW t \in Thread, WriteStep(t) PROVE SentInv'
  BY <1>3, <1>7 DEF WriteStep, OpenFile, OpenFails, CopyRecords, CloseFile, clientVars
<1>8. ASSUME NEW t \in Taker, Release(t) PROVE SentInv'
  <2>1. reply' = reply /\ \E p : pc' = [pc EXCEPT ![t] = p]
    BY <1>8 DEF Release, GetIdleVolume, NoIdleVolume, ReadRecord, MarkTaken, Umount, DetachIssue,
         DetachRefused, DetachDone, DetachTimeout, MarkUndetached, Moves, clientVars
  <2>2. pc[t] \notin {"ack", "del", "done"}
    BY <1>8 DEF Release, GetIdleVolume, NoIdleVolume, ReadRecord, MarkTaken, Umount, DetachIssue,
         DetachRefused, DetachDone, DetachTimeout, MarkUndetached, Moves
  <2> QED BY <1>4, <1>6, <2>1, <2>2 DEF Taker
<1>9. ASSUME NEW t \in Taker, DeleteTaken(t) PROVE SentInv'
  <2>1. reply' = reply /\ \E p : pc' = [pc EXCEPT ![t] = p]
    BY <1>9 DEF DeleteTaken, Moves, clientVars
  <2>2. t \in Client => pc' = [pc EXCEPT ![t] = "done"]
    BY <1>9 DEF DeleteTaken, Moves
  <2> QED BY <1>4, <1>5, <2>1, <2>2 DEF Taker
<1>10. ASSUME NEW c \in Client, Aquire(c) PROVE SentInv'
  <2>1. /\ \E p \in {"ack", "del", "done"} : pc' = [pc EXCEPT ![c] = p]
        /\ \A d \in Client \ {c} : reply'[d] = reply[d]
    BY <1>2, <1>10 DEF Aquire, SendVolume, AckOK, AckFailed, ConnectionLost, Moves, clientVars
  <2> QED BY <1>5, <2>1
<1>11. ASSUME NEW c \in Client, ClientStep(c) PROVE SentInv'
  <2>1. CASE ClientAsks(c)
    BY <1>6, <2>1 DEF ClientAsks
  <2>2. ASSUME NEW t \in Releaser, ClientNotifies(c, t) PROVE SentInv'
    BY <1>4, <2>2 DEF ClientNotifies
  <2>3. CASE UNCHANGED <<pc, reply>>
    BY <1>3, <2>3
  <2> QED BY <1>11, <2>1, <2>2, <2>3
      DEF ClientStep, ClientTurnedAway, ClientReceives, ClientAttaches, ClientAttachFails, ClientMounts,
          ClientMountFails, ClientDiscards, ClientAnswers, ClientDies, ClientDetaches, ClientDeletes,
          ClientReleaseFails, NotifyLost
<1>12. ASSUME NEW t \in Creator, Create(t) \/ SpawnCreator(t) PROVE SentInv'
  <2>1. reply' = reply /\ \E p : pc' = [pc EXCEPT ![t] = p]
    BY <1>12 DEF Create, SpawnCreator, LoadCounter, StoreCounter, CreateVolume, CreateFails,
         CreateMisread, AttachDone, AttachFails, DeleteUnattached, MountDone, MountGivenUp, AddVolume,
         Moves, clientVars
  <2> QED BY <1>4, <2>1
<1>13. ASSUME NEW t \in Remover \cup Releaser, SpawnRemover(t) \/ CheckReleased(t) \/ DropRecord(t)
       PROVE  SentInv'
  <2>1. reply' = reply /\ \E p : pc' = [pc EXCEPT ![t] = p]
    BY <1>13 DEF SpawnRemover, CheckReleased, DropRecord, Moves, clientVars
  <2> QED BY <1>4, <2>1
<1>14. CASE StartUp
  <2>1. reply' = reply /\ \E p : pc' = [pc EXCEPT ![Main] = p]
    BY <1>14 DEF StartUp, LoadFile, RemountEnds, RemountKeeps, RemountMounts, RemountDrops, Remounts,
         Moves, clientVars
  <2> QED BY <1>4, <2>1
<1>15. CASE Crash
  BY <1>1, <1>2, <1>15 DEF Crash, SentInv, clientVars
<1>16. ASSUME NEW v \in Volume, EbsDetached(v) PROVE SentInv'
  BY <1>3, <1>16 DEF EbsDetached, clientVars
<1>17. CASE UNCHANGED vars
  BY <1>3, <1>17 DEF vars, clientVars
<1> QED BY <1>7, <1>8, <1>9, <1>10, <1>11, <1>12, <1>13, <1>14, <1>15, <1>16, <1>17 DEF Next

-----------------------------------------------------------------------------
(* Steps that offer and give nothing.                                      *)

\* Nothing becomes offered, nothing is sent, no volume ceases to exist, and a
\* creator learns of no volume but one that did not exist.
Withdraws ==
  /\ Offered' \subseteq Offered
  /\ reply' = reply
  /\ \A v \in Volume : ebs[v] # "absent" => ebs'[v] # "absent"
  /\ \A t \in Creator, v \in Volume : vid'[t] = v => vid[t] = v \/ ebs[v] = "absent"

\* Such a step retires the volumes that are no longer offered, and those that a
\* creator has given up.
LEMMA WithdrawsRetires ==
  ASSUME TypeInv, LedgerInv, LedgerInv', Withdraws
  PROVE  Life!Next \/ UNCHANGED Life!vars
<1> DEFINE S == Spent' \ Spent
<1>1. Offered \subseteq Listed /\ Listed \subseteq Volume
  BY OfferedVolumes
<1>2. \A v \in Offered : ebs[v] # "absent" /\ \A t \in Creator : vid[t] # v
  BY <1>1, VolumeAssumption DEF LedgerInv, CreatedInv, FreshInv
<1>3. Spent \subseteq Spent'
  BY DEF Spent, Withdraws
<1>4. \A v \in Offered : v \in Offered' \/ v \in S
  BY <1>1, <1>2 DEF Spent, Withdraws
<1>5. S \cap Spent = {} /\ S \cap Offered' = {} /\ S \subseteq Volume
  BY DEF Spent
<1>6. Spent' = Spent \cup S
  BY <1>3
<1> HIDE DEF S
<1>7. Offered' = Offered \ S
  BY <1>4, <1>5 DEF Withdraws
<1>8. Life!Retire(S)
  BY <1>5, <1>6, <1>7 DEF Life!Retire, Withdraws
<1> QED BY <1>5, <1>8 DEF Life!Next

\* A step that leaves the lists alone offers nothing.
LEMMA QuietWithdraws ==
  ASSUME Quiet, UNCHANGED <<reply, vid>>,
         \A v \in Volume : ebs[v] # "absent" => ebs'[v] # "absent"
  PROVE  Withdraws
BY QuietLists DEF Withdraws

\* EC2 never forgets a volume.
LEMMA VolumesStay ==
  ASSUME TypeInv, NEW v, NEW x, x # "absent", ebs' = ebs \/ ebs' = [ebs EXCEPT ![v] = x]
  PROVE  \A w \in Volume : ebs[w] # "absent" => ebs'[w] # "absent"
BY DEF TypeInv, TypeOK

\* A thread that stores a list without new idle records.
LEMMA StoresWithdraws ==
  ASSUME TypeInv, NEW t \in Thread, NEW s, Stores(t, s), Idle(s) \subseteq Idle(m_volumes),
         UNCHANGED <<volumeFile, buf, reply, ebs>>,
         \A k \in Creator : vid'[k] = vid[k]
  PROVE  Withdraws
<1>1. Offered' \subseteq Offered
  BY DEF Offered, Stores
<1> QED BY <1>1 DEF Withdraws

LEMMA WriteWithdraws ==
  ASSUME TypeInv, NEW t \in Thread, WriteStep(t)
  PROVE  Withdraws
<1>1. UNCHANGED <<m_volumes, vid, reply, ebs>>
  BY DEF WriteStep, OpenFile, OpenFails, CopyRecords, CloseFile, ec2Vars, clientVars, localVars
<1>2. \A u \in Thread : Idle(buf'[u]) \subseteq Idle(m_volumes) \cup Idle(buf[u])
  BY EmptyLists DEF WriteStep, OpenFile, OpenFails, CopyRecords, CloseFile, TypeInv, TypeOK
<1>3. Idle(volumeFile') \subseteq Idle(volumeFile) \cup Idle(buf[t])
  BY EmptyLists DEF WriteStep, OpenFile, OpenFails, CopyRecords, CloseFile
<1>4. Offered' \subseteq Offered
  BY <1>1, <1>2, <1>3 DEF Offered
<1> QED BY <1>1, <1>4 DEF Withdraws

LEMMA ReleaseWithdraws ==
  ASSUME TypeInv, LedgerInv, NEW t \in Taker, Release(t)
  PROVE  Withdraws
<1>1. t \in Thread /\ t \notin Creator
  BY ThreadAssumption DEF Thread, Worker, Taker
<1>2. \A k \in Creator : vid'[k] = vid[k]
  <2>1. vid' = vid \/ \E x : vid' = [vid EXCEPT ![t] = x]
    BY DEF Release, GetIdleVolume, NoIdleVolume, ReadRecord, MarkTaken, Umount, DetachIssue,
         DetachRefused, DetachDone, DetachTimeout, MarkUndetached, localVars
  <2> QED BY <1>1, <2>1 DEF TypeInv, TypeOK, Thread, Worker
<1>3. CASE MarkTaken(t) \/ MarkUndetached(t)
  <2>1. UNCHANGED <<volumeFile, buf, reply, ebs>>
    BY <1>3 DEF MarkTaken, MarkUndetached, fileVars, ec2Vars, clientVars
  <2>2. \E st \in Status \ {"idle"} : UpdatesStatus(t, st, NoPlace)
    BY <1>3 DEF MarkTaken, MarkUndetached, Status
  <2>3. PICK st \in Status \ {"idle"} : UpdatesStatus(t, st, NoPlace)
    BY <2>2
  <2>4. CASE vid[t] \in Ids(m_volumes)
    <3> DEFINE s == Updated(m_volumes, vid[t], st, NoPlace)
    <3>1. Stores(t, s) /\ m_volumes \in Seq(Record) /\ Unique(m_volumes)
      BY <2>3, <2>4 DEF UpdatesStatus, TypeInv, TypeOK, LedgerInv, UniqueInv
    <3>2. Idle(s) \subseteq Idle(m_volumes)
      BY <3>1, UpdatedList
    <3> HIDE DEF s
    <3> QED BY <1>1, <1>2, <2>1, <3>1, <3>2, StoresWithdraws
  <2>5. CASE vid[t] \notin Ids(m_volumes)
    BY <1>2, <2>1, <2>3, <2>5, QuietLists DEF UpdatesStatus, Quiet, listVars, Withdraws
  <2> QED BY <2>4, <2>5
<1>4. CASE ~(MarkTaken(t) \/ MarkUndetached(t))
  <2>1. Quiet /\ reply' = reply
    BY <1>4 DEF Release, GetIdleVolume, NoIdleVolume, ReadRecord, Umount, DetachIssue,
         DetachRefused, DetachDone, DetachTimeout, Quiet, listVars, fileVars, clientVars
  <2>2. ebs' = ebs \/ ebs' = [ebs EXCEPT ![vid[t]] = "detaching"]
    BY <1>4 DEF Release, GetIdleVolume, NoIdleVolume, ReadRecord, Umount, DetachIssue,
         DetachRefused, DetachDone, DetachTimeout, Detaches, ec2Vars
  <2>3. \A v \in Volume : ebs[v] # "absent" => ebs'[v] # "absent"
    BY <2>2, VolumesStay
  <2> QED BY <1>2, <2>1, <2>3, QuietLists DEF Withdraws
<1> QED BY <1>3, <1>4

LEMMA AquireWithdraws ==
  ASSUME TypeInv, LedgerInv, NEW c \in Client, AckOK(c) \/ AckFailed(c) \/ ConnectionLost(c)
  PROVE  Withdraws
<1>1. c \in Thread /\ UNCHANGED <<volumeFile, buf, reply, ebs, vid>>
      /\ m_volumes \in Seq(Record) /\ Unique(m_volumes)
  BY DEF AckOK, AckFailed, ConnectionLost, fileVars, ec2Vars, clientVars, localVars, Thread, Worker,
         Taker, TypeInv, TypeOK, LedgerInv, UniqueInv
<1>2. CASE AckFailed(c) \/ ConnectionLost(c)
  <2> DEFINE s == Erased(m_volumes, vid[c])
  <2>1. Stores(c, s) /\ Idle(s) \subseteq Idle(m_volumes)
    BY <1>1, <1>2, ErasedList DEF AckFailed, ConnectionLost
  <2> HIDE DEF s
  <2> QED BY <1>1, <2>1, StoresWithdraws
<1>3. CASE AckOK(c)
  <2> DEFINE s == Updated(m_volumes, vid[c], "used", c)
  <2>1. UpdatesStatus(c, "used", c)
    BY <1>3 DEF AckOK
  <2>2. CASE vid[c] \in Ids(m_volumes)
    <3>1. Stores(c, s)
      BY <2>1, <2>2 DEF UpdatesStatus
    <3>2. Idle(s) \subseteq Idle(m_volumes)
      BY <1>1, UpdatedList DEF Status
    <3> HIDE DEF s
    <3> QED BY <1>1, <3>1, <3>2, StoresWithdraws
  <2>3. CASE vid[c] \notin Ids(m_volumes)
    BY <1>1, <2>1, <2>3, QuietWithdraws DEF UpdatesStatus, Quiet, listVars
  <2> QED BY <2>2, <2>3
<1> QED BY <1>2, <1>3

LEMMA RemoveWithdraws ==
  ASSUME TypeInv, LedgerInv, NEW t \in Thread,
         DeleteTaken(t) \/ DropRecord(t) \/ CheckReleased(t) \/ SpawnRemover(t)
  PROVE  Withdraws
<1>1. UNCHANGED <<volumeFile, buf, reply, vid>>
  BY DEF DeleteTaken, DropRecord, CheckReleased, SpawnRemover, fileVars, clientVars, localVars
<1>2. CASE DropRecord(t)
  <2> DEFINE s == Erased(m_volumes, vid[t])
  <2>1. Stores(t, s) /\ Idle(s) \subseteq Idle(m_volumes) /\ ebs' = ebs
    BY <1>2, ErasedList DEF DropRecord, ec2Vars, TypeInv, TypeOK, LedgerInv, UniqueInv
  <2> HIDE DEF s
  <2> QED BY <1>1, <2>1, StoresWithdraws
<1>3. CASE DeleteTaken(t) \/ CheckReleased(t) \/ SpawnRemover(t)
  <2>1. Quiet /\ (ebs' = ebs \/ ebs' = [ebs EXCEPT ![vid[t]] = "deleted"])
    BY <1>1, <1>3 DEF DeleteTaken, CheckReleased, SpawnRemover, Deletes, Quiet, listVars, ec2Vars
  <2> QED BY <1>1, <2>1, VolumesStay, QuietWithdraws
<1> QED BY <1>2, <1>3

LEMMA CreateWithdraws ==
  ASSUME TypeInv, LedgerInv, NEW t \in Creator, Create(t) \/ SpawnCreator(t), ~AddVolume(t)
  PROVE  Withdraws
<1>1. Quiet /\ reply' = reply
  BY DEF Create, SpawnCreator, LoadCounter, StoreCounter, CreateVolume, CreateFails, CreateMisread,
         AttachDone, AttachFails, DeleteUnattached, MountDone, MountGivenUp, Quiet, listVars, fileVars,
         clientVars
<1>2. t \in Thread
  BY DEF Thread, Worker
<1>3. CASE CreateVolume(t)
  <2>1. PICK v \in Volume : /\ ebs[v] = "absent" /\ ebs' = [ebs EXCEPT ![v] = "available"]
                            /\ vid' = [vid EXCEPT ![t] = v]
    BY <1>3 DEF CreateVolume
  <2>2. \A w \in Volume : ebs[w] # "absent" => ebs'[w] # "absent"
    BY <2>1, VolumesStay
  <2> QED BY <1>1, <2>1, <2>2, QuietLists DEF Withdraws, TypeInv, TypeOK
<1>4. CASE ~CreateVolume(t)
  <2>1. \E x \in {"detaching", "deleted", Here} : ebs' = ebs \/ ebs' = [ebs EXCEPT ![vid[t]] = x]
    BY <1>4 DEF Create, SpawnCreator, LoadCounter, StoreCounter, CreateFails, CreateMisread,
         AttachDone, AttachFails, DeleteUnattached, MountDone, MountGivenUp, Deletes, Detaches, ec2Vars
  <2>2. \A w \in Volume : ebs[w] # "absent" => ebs'[w] # "absent"
    BY <2>1, VolumesStay DEF Here
  <2>3. vid' = vid \/ vid' = [vid EXCEPT ![t] = NoVolume]
    BY <1>4 DEF Create, SpawnCreator, LoadCounter, StoreCounter, CreateFails, CreateMisread,
         AttachDone, AttachFails, DeleteUnattached, MountDone, MountGivenUp, localVars
  <2>4. \A k \in Creator, v \in Volume : vid'[k] = v => vid[k] = v
    BY <2>3, VolumeAssumption DEF TypeInv, TypeOK, Thread, Worker
  <2> QED BY <1>1, <2>2, <2>4, QuietLists DEF Withdraws
<1> QED BY <1>3, <1>4

LEMMA ClientWithdraws ==
  ASSUME TypeInv, LedgerInv, NEW c \in Client, ClientStep(c)
  PROVE  Withdraws
<1>1. Quiet /\ reply' = reply
  BY DEF ClientStep, ClientAsks, ClientTurnedAway, ClientReceives, ClientAttaches, ClientAttachFails,
         ClientMounts, ClientMountFails, ClientDiscards, ClientAnswers, ClientDies, ClientDetaches,
         ClientDeletes, ClientReleaseFails, NotifyLost, ClientNotifies, Quiet, listVars, fileVars
<1>2. \E x \in {"detaching", "deleted", c} : ebs' = ebs \/ ebs' = [ebs EXCEPT ![reply[c]] = x]
  BY DEF ClientStep, ClientAsks, ClientTurnedAway, ClientReceives, ClientAttaches, ClientAttachFails,
         ClientMounts, ClientMountFails, ClientDiscards, ClientAnswers, ClientDies, ClientDetaches,
         ClientDeletes, ClientReleaseFails, NotifyLost, ClientNotifies, Deletes, Detaches, ec2Vars
<1>3. \A w \in Volume : ebs[w] # "absent" => ebs'[w] # "absent"
  BY <1>2, VolumesStay, InstanceAssumption
<1>4. vid' = vid \/ \E t \in Releaser : vid' = [vid EXCEPT ![t] = reply[c]]
  BY DEF ClientStep, ClientAsks, ClientTurnedAway, ClientReceives, ClientAttaches, ClientAttachFails,
         ClientMounts, ClientMountFails, ClientDiscards, ClientAnswers, ClientDies, ClientDetaches,
         ClientDeletes, ClientReleaseFails, NotifyLost, ClientNotifies, localVars
<1>5. \A k \in Creator : vid'[k] = vid[k]
  BY <1>4, ThreadAssumption DEF TypeInv, TypeOK, Thread, Worker
<1> QED BY <1>1, <1>3, <1>5, QuietLists DEF Withdraws

\* What is loaded was in the file; remount mounts volumes or drops them.
LEMMA StartUpWithdraws ==
  ASSUME TypeInv, StartUp
  PROVE  Withdraws
<1>1. CASE LoadFile
  <2>1. m_volumes' = volumeFile /\ UNCHANGED <<volumeFile, buf, reply, vid, ebs>>
    BY <1>1 DEF LoadFile, ec2Vars, clientVars
  <2> QED BY <2>1 DEF Offered, Withdraws
<1>2. ASSUME NEW i, RemountKeeps(i) \/ RemountMounts(i) \/ RemountEnds PROVE Withdraws
  <2>1. Quiet /\ UNCHANGED <<reply, vid, ebs>>
    BY <1>2 DEF RemountKeeps, RemountMounts, RemountEnds, Quiet, listVars, fileVars, clientVars, ec2Vars
  <2> QED BY <2>1, QuietWithdraws
<1>3. ASSUME NEW i, RemountDrops(i) PROVE Withdraws
  <2> DEFINE v == m_volumes[i].id
             s == Erased(m_volumes, v)
  <2>1. /\ Stores(Main, s) /\ UNCHANGED <<volumeFile, buf, reply, vid>>
        /\ ebs' = ebs \/ ebs' = [ebs EXCEPT ![v] = "detaching"]
    BY <1>3 DEF RemountDrops, Detaches, fileVars, clientVars
  <2>2. Idle(s) \subseteq Idle(m_volumes)
    BY ErasedList DEF TypeInv, TypeOK
  <2> HIDE DEF s, v
  <2>3. Offered' \subseteq Offered
    BY <2>1, <2>2 DEF Offered, Stores
  <2>4. \A w \in Volume : ebs[w] # "absent" => ebs'[w] # "absent"
    BY <2>1, VolumesStay
  <2> QED BY <2>1, <2>3, <2>4 DEF Withdraws
<1> QED BY <1>1, <1>2, <1>3 DEF StartUp

LEMMA CrashWithdraws ==
  ASSUME TypeInv, Crash
  PROVE  Withdraws
<1>1. /\ buf' = [t \in Thread |-> <<>>] /\ vid' = [t \in Thread |-> NoVolume] /\ m_volumes' = <<>>
      /\ UNCHANGED <<volumeFile, reply, ebs>>
  BY DEF Crash, clientVars
<1>2. Offered' \subseteq Offered
  BY <1>1, EmptyLists DEF Offered
<1> QED BY <1>1, <1>2, VolumeAssumption DEF Withdraws, Thread, Worker

LEMMA DetachedWithdraws ==
  ASSUME TypeInv, NEW v \in Volume, EbsDetached(v)
  PROVE  Withdraws
<1>1. Quiet /\ UNCHANGED <<reply, vid>> /\ ebs' = [ebs EXCEPT ![v] = "available"]
  BY DEF EbsDetached, Quiet, listVars, fileVars, clientVars, localVars
<1> QED BY <1>1, VolumesStay, QuietWithdraws

-----------------------------------------------------------------------------
(* Steps that offer or give.                                               *)

\* Only a volume that nobody knows is offered, and it was not spent.
LEMMA AddVolumeOffers ==
  ASSUME TypeInv, LedgerInv, NEW t \in Creator, AddVolume(t)
  PROVE  Life!Next
<1> DEFINE v == vid[t]
<1>1. /\ pc[t] = "add" /\ m_volumes' = Append(m_volumes, IdleRecord(v))
      /\ vid' = [vid EXCEPT ![t] = NoVolume] /\ UNCHANGED <<volumeFile, buf, reply, ebs>>
  BY DEF AddVolume, Moves, Stores, fileVars, ec2Vars, clientVars
<1>2. v \in Volume /\ v # NoVolume /\ t \in Thread
  BY <1>1 DEF TypeInv, TypeOK, Thread, Worker
<1>3. v \notin Listed /\ \A k \in Creator \ {t} : vid[k] # v
  BY <1>2 DEF LedgerInv, FreshInv, Thread, Worker
<1>4. Idle(m_volumes)' = Idle(m_volumes) \cup {v}
  BY <1>1, <1>2, AppendedList DEF TypeInv, TypeOK
<1>5. Offered' = Offered \cup {v}
  BY <1>1, <1>4 DEF Offered
<1>6. v \notin Offered /\ v \notin Spent
  BY <1>3, OfferedVolumes DEF Spent
<1>7. \A k \in Creator, w \in Volume \ {v} : vid'[k] = w <=> vid[k] = w
  BY <1>1, <1>2, VolumeAssumption DEF TypeInv, TypeOK, Thread, Worker
<1> HIDE DEF v
<1>8. Spent' = Spent
  BY <1>1, <1>5, <1>6, <1>7 DEF Spent
<1>9. Life!Offer(v)
  BY <1>1, <1>5, <1>6, <1>8 DEF Life!Offer
<1> QED BY <1>2, <1>9 DEF Life!Next

\* What is sent has left the list, the file and all copies.
LEMMA SendVolumeGives ==
  ASSUME TypeInv, LedgerInv, SentInv, NEW c \in Client, SendVolume(c)
  PROVE  Life!Next \/ UNCHANGED Life!vars
<1>1. /\ pc[c] = "send" /\ wr[c] = "no"
      /\ UNCHANGED <<m_volumes, volumeFile, buf, vid, ebs>>
      /\ reply' = reply \/ reply' = [reply EXCEPT ![c] = vid[c]]
  BY DEF SendVolume, Moves, listVars, fileVars, ec2Vars, localVars, TypeInv, TypeOK
<1>2. Offered' = Offered
  BY <1>1 DEF Offered
<1>3. Spent' = Spent
  BY <1>1, <1>2 DEF Spent
<1>4. reply[c] = NoVolume /\ c \in Thread /\ c \in Taker /\ c \notin Creator
  BY <1>1, ThreadAssumption DEF SentInv, Thread, Worker, Taker
<1>5. CASE vid[c] = NoVolume
  <2>1. reply' = reply
    BY <1>1, <1>4, <1>5 DEF TypeInv, TypeOK
  <2> QED BY <1>2, <1>3, <2>1 DEF Life!vars
<1>6. CASE vid[c] # NoVolume
  <2>1. vid[c] \in Volume /\ ebs[vid[c]] # "absent" /\ vid[c] \notin Offered
    BY <1>1, <1>4, <1>6 DEF TypeInv, TypeOK, LedgerInv, CreatedInv, TakenInv, Holding
  <2>2. \A t \in Creator : vid[t] # vid[c]
    BY <1>4, <1>6 DEF LedgerInv, FreshInv, Thread, Worker
  <2>3. vid[c] \in Spent
    BY <2>1, <2>2 DEF Spent
  <2>4. Life!Give(c, vid[c]) \/ UNCHANGED Life!vars
    BY <1>1, <1>2, <1>3, <1>4, <2>3 DEF Life!Give, Life!vars
  <2> QED BY <2>1, <2>4 DEF Life!Next
<1> QED BY <1>5, <1>6

-----------------------------------------------------------------------------
(* The refinement.                                                         *)

LEMMA InitLife == Init => Life!Init
<1> SUFFICES ASSUME Init PROVE Life!Init
  OBVIOUS
<1>1. Offered \subseteq Volume
  BY InitType, InitReady, OfferedVolumes
<1>2. \A v \in Volume : ebs[v] # "absent" => v \in Offered
  <2> SUFFICES ASSUME NEW i \in DOMAIN Loaded PROVE Loaded[i] \in Idle(m_volumes)
    BY DEF Init, Offered
  <2>1. i \in DOMAIN m_volumes /\ m_volumes[i] = IdleRecord(Loaded[i])
    BY DEF Init
  <2> QED BY <2>1 DEF IdleRecord, Idle, IdleAt
<1>3. Spent = {}
  BY <1>2 DEF Spent
<1> QED BY <1>1, <1>3 DEF Init, Life!Init

LEMMA NextLife ==
  ASSUME TypeInv, LedgerInv, LedgerInv', SentInv, [Next]_vars
  PROVE  Life!Next \/ UNCHANGED Life!vars
<1>1. CASE UNCHANGED vars
  BY <1>1 DEF vars, listVars, fileVars, ec2Vars, clientVars, localVars, Life!vars, Offered, Spent
<1>2. ASSUME NEW t \in Creator, AddVolume(t) PROVE Life!Next
  BY <1>2, AddVolumeOffers
<1>3. ASSUME NEW c \in Client, SendVolume(c) PROVE Life!Next \/ UNCHANGED Life!vars
  BY <1>3, SendVolumeGives
<1>4. CASE Next /\ (\A t \in Creator : ~AddVolume(t)) /\ \A c \in Client : ~SendVolume(c)
  <2>1. Remover \cup Releaser \cup Taker \subseteq Thread
    BY DEF Thread, Worker, Taker
  <2>2. ASSUME NEW t \in Thread, WriteStep(t) PROVE Withdraws
    BY <2>2, WriteWithdraws
  <2>3. ASSUME NEW t \in Taker, Release(t) \/ DeleteTaken(t) PROVE Withdraws
    BY <2>1, <2>3, ReleaseWithdraws, RemoveWithdraws
  <2>4. ASSUME NEW c \in Client, Aquire(c) \/ ClientStep(c) PROVE Withdraws
    BY <1>4, <2>4, AquireWithdraws, ClientWithdraws DEF Aquire
  <2>5. ASSUME NEW t \in Creator, Create(t) \/ SpawnCreator(t) PROVE Withdraws
    BY <1>4, <2>5, CreateWithdraws
  <2>6. ASSUME NEW t \in Remover \cup Releaser, SpawnRemover(t) \/ CheckReleased(t) \/ DropRecord(t)
        PROVE  Withdraws
    BY <2>1, <2>6, RemoveWithdraws
  <2>7. Withdraws
    BY <1>4, <2>2, <2>3, <2>4, <2>5, <2>6, DetachedWithdraws, StartUpWithdraws, CrashWithdraws DEF Next
  <2> QED BY <2>7, WithdrawsRetires
<1> QED BY <1>1, <1>2, <1>3, <1>4

\* With a file that can be written the daemon keeps the promise of VolumeLife, for
\* any numbers of volumes, clients and threads, and across any number of stops and
\* of restarts of the machine: a volume is offered at most once in its life, and a
\* client is sent one volume, which is never offered again.
THEOREM PoolKeepsPromise ==
  ASSUME ~OpenMayFail
  PROVE  Spec => OfferedOnce
<1>1. Init => TypeInv /\ LedgerInv /\ SentInv /\ Life!Init
  BY InitType, InitReady, InitSent, InitLife DEF ReadyInv
<1>2. TypeInv /\ LedgerInv /\ SentInv /\ [Next]_vars => (TypeInv /\ LedgerInv /\ SentInv)'
  BY NextType, NextLedger, NextSent
<1>3. TypeInv /\ LedgerInv /\ LedgerInv' /\ SentInv /\ [Next]_vars => [Life!Next]_(Life!vars)
  BY NextLife
<1> QED BY <1>1, <1>2, <1>3, PTL DEF Spec, OfferedOnce, Life!Spec

-----------------------------------------------------------------------------
(* A creator's volume is its own, whatever fails and whatever is restarted. *)

\* Nothing becomes listed, EC2 forgets no volume, and nobody learns of a volume
\* but from a list, from what a client was sent, or from the handler that sends it.
Discreet ==
  /\ Listed' \subseteq Listed
  /\ \A v \in Volume : ebs[v] # "absent" => ebs'[v] # "absent"
  /\ \A t \in Creator : vid'[t] \in {vid[t], NoVolume}
  /\ \A t \in Thread \ Creator : vid'[t] \in {vid[t], NoVolume} \cup Listed \cup {reply[c] : c \in Client}
  /\ \A c \in Client : reply'[c] \in {reply[c], vid[c]}

LEMMA DiscreetOwned ==
  ASSUME TypeInv, OwnedInv, Discreet
  PROVE  OwnedInv'
<1>1. /\ Listed \subseteq Volume /\ Creator \subseteq Thread /\ Client \subseteq Thread \ Creator
      /\ \A t \in Thread : vid[t] \in Volume \cup {NoVolume}
      /\ \A c \in Client : reply[c] \in Volume \cup {NoVolume}
  BY OfferedVolumes, ThreadAssumption DEF TypeInv, TypeOK, Thread, Worker, Taker
<1>2. FreshInv'
  <2> SUFFICES ASSUME NEW t \in Creator, vid'[t] # NoVolume
               PROVE  /\ vid'[t] \notin Listed'
                      /\ \A u \in Thread \ {t} : vid'[u] # vid'[t]
                      /\ \A c \in Client : reply'[c] # vid'[t]
    BY DEF FreshInv
  <2>1. vid'[t] = vid[t] /\ vid[t] # NoVolume
    BY DEF Discreet
  <2>2. /\ vid[t] \notin Listed
        /\ \A u \in Thread \ {t} : vid[u] # vid[t]
        /\ \A c \in Client : reply[c] # vid[t]
    BY <2>1 DEF OwnedInv, FreshInv
  <2>3. \A u \in Thread \ {t} : vid'[u] # vid[t]
    BY <2>1, <2>2 DEF Discreet
  <2>4. \A c \in Client : reply'[c] # vid[t]
    BY <1>1, <2>2 DEF Discreet
  <2> QED BY <2>1, <2>2, <2>3, <2>4 DEF Discreet
<1>3. CreatedInv'
  <2>1. \A v \in Listed : ebs'[v] # "absent"
    BY <1>1 DEF Discreet, OwnedInv, CreatedInv
  <2>2. \A t \in Thread : vid[t] # NoVolume => ebs'[vid[t]] # "absent"
    BY <1>1 DEF Discreet, OwnedInv, CreatedInv
  <2>3. \A c \in Client : reply[c] # NoVolume => ebs'[reply[c]] # "absent"
    BY <1>1 DEF Discreet, OwnedInv, CreatedInv
  <2> QED BY <1>1, <2>1, <2>2, <2>3 DEF Discreet, CreatedInv
<1> QED BY <1>2, <1>3 DEF OwnedInv

\* update, erase and load list nothing that was not listed.
LEMMA StoresListed ==
  ASSUME TypeInv, UNCHANGED <<volumeFile, buf>>, NEW v,
         \/ m_volumes' \in {m_volumes, volumeFile, Erased(m_volumes, v)}
         \/ \E st \in Status \ {"idle"}, at \in Client \cup {NoPlace} :
              m_volumes' = Updated(m_volumes, v, st, at)
  PROVE  Listed' \subseteq Listed
<1>1. m_volumes \in Seq(Record)
  BY DEF TypeInv, TypeOK
<1>2. Ids(m_volumes') \subseteq Ids(m_volumes) \cup Ids(volumeFile)
  BY <1>1, ErasedList, UpdatedList
<1> QED BY <1>2 DEF Listed

LEMMA WriteDiscreet ==
  ASSUME TypeInv, NEW t \in Thread, WriteStep(t)
  PROVE  Discreet
<1>1. UNCHANGED <<m_volumes, ebs, vid, reply>>
  BY DEF WriteStep, OpenFile, OpenFails, CopyRecords, CloseFile, ec2Vars, localVars, clientVars
<1>2. \A u \in Thread : buf'[u] \in {<<>>, m_volumes, buf[u]}
  BY DEF WriteStep, OpenFile, OpenFails, CopyRecords, CloseFile, TypeInv, TypeOK
<1>3. volumeFile' \in {<<>>, volumeFile, buf[t]}
  BY DEF WriteStep, OpenFile, OpenFails, CopyRecords, CloseFile
<1>4. Ids(<<>>) = {}
  BY EmptyLists
<1>5. \A u \in Thread : Ids(buf'[u]) \subseteq Listed
  BY <1>2, <1>4 DEF Listed
<1>6. Ids(volumeFile') \subseteq Listed
  BY <1>3, <1>4 DEF Listed
<1>7. Listed' \subseteq Listed
  BY <1>1, <1>5, <1>6 DEF Listed
<1> QED BY <1>1, <1>7 DEF Discreet

\* The steps of a thread that is no creator, once what it learns is known.
LEMMA WorkerDiscreet ==
  ASSUME TypeInv, NEW t \in Thread \ Creator, NEW w, NEW x, x # "absent",
         Listed' \subseteq Listed,
         ebs' = ebs \/ ebs' = [ebs EXCEPT ![w] = x],
         NEW y \in {NoVolume} \cup Listed \cup {reply[c] : c \in Client},
         vid' = vid \/ vid' = [vid EXCEPT ![t] = y],
         \A c \in Client : reply'[c] \in {reply[c], vid[c]}
  PROVE  Discreet
<1>1. \A v \in Volume : ebs[v] # "absent" => ebs'[v] # "absent"
  BY VolumesStay
<1>2. \A u \in Thread : vid'[u] = vid[u] \/ (u = t /\ vid'[u] = y)
  BY DEF TypeInv, TypeOK
<1>3. Creator \subseteq Thread
  BY DEF Thread, Worker
<1> QED BY <1>1, <1>2, <1>3 DEF Discreet

LEMMA ReleaseDiscreet ==
  ASSUME TypeInv, NEW t \in Taker, Release(t) \/ DeleteTaken(t)
  PROVE  Discreet
<1>1. t \in Thread \ Creator
  BY ThreadAssumption DEF Thread, Worker, Taker
<1>2. UNCHANGED <<volumeFile, buf, reply>>
  BY DEF Release, GetIdleVolume, NoIdleVolume, ReadRecord, MarkTaken, Umount, DetachIssue, DetachRefused,
     DetachDone, DetachTimeout, MarkUndetached, DeleteTaken, fileVars, clientVars
<1>3. \/ m_volumes' = m_volumes
      \/ \E st \in Status \ {"idle"}, at \in Client \cup {NoPlace} :
           m_volumes' = Updated(m_volumes, vid[t], st, at)
  BY DEF Release, GetIdleVolume, NoIdleVolume, ReadRecord, MarkTaken, Umount, DetachIssue, DetachRefused,
     DetachDone, DetachTimeout, MarkUndetached, DeleteTaken, UpdatesStatus, Stores, listVars, Status
<1>4. Listed' \subseteq Listed
  BY <1>2, <1>3, StoresListed
<1>5. PICK x \in {"detaching", "deleted"} : ebs' = ebs \/ ebs' = [ebs EXCEPT ![vid[t]] = x]
  BY DEF Release, GetIdleVolume, NoIdleVolume, ReadRecord, MarkTaken, Umount, DetachIssue, DetachRefused,
     DetachDone, DetachTimeout, MarkUndetached, DeleteTaken, Detaches, Deletes, ec2Vars
<1>6. PICK y \in {NoVolume} \cup Listed : vid' = vid \/ vid' = [vid EXCEPT ![t] = y]
  <2>1. CASE ReadRecord(t)
    BY <2>1 DEF ReadRecord, Listed, Ids
  <2>2. CASE ~ReadRecord(t)
    <3>1. vid' = vid \/ vid' = [vid EXCEPT ![t] = NoVolume]
      BY <2>2 DEF Release, GetIdleVolume, NoIdleVolume, MarkTaken, Umount, DetachIssue, DetachRefused,
         DetachDone, DetachTimeout, MarkUndetached, DeleteTaken, localVars
    <3> QED BY <3>1
  <2> QED BY <2>1, <2>2
<1> QED BY <1>1, <1>2, <1>4, <1>5, <1>6, WorkerDiscreet

\* The handlers of the clients, and the drop of a record.
LEMMA AquireDiscreet ==
  ASSUME TypeInv, NEW t \in Client \cup Remover \cup Releaser,
         (t \in Client /\ Aquire(t)) \/ SpawnRemover(t) \/ CheckReleased(t) \/ DropRecord(t)
  PROVE  Discreet
<1>1. t \in Thread \ Creator
  BY ThreadAssumption DEF Thread, Worker, Taker
<1>2. UNCHANGED <<volumeFile, buf, ebs, vid>>
  BY DEF Aquire, SendVolume, AckOK, AckFailed, ConnectionLost, SpawnRemover, CheckReleased, DropRecord,
     fileVars, ec2Vars, localVars
<1>3. \/ m_volumes' \in {m_volumes, Erased(m_volumes, vid[t])}
      \/ \E st \in Status \ {"idle"}, at \in Client \cup {NoPlace} :
           m_volumes' = Updated(m_volumes, vid[t], st, at)
  BY DEF Aquire, SendVolume, AckOK, AckFailed, ConnectionLost, SpawnRemover, CheckReleased, DropRecord,
     UpdatesStatus, Stores, listVars, Status
<1>4. Listed' \subseteq Listed
  BY <1>2, <1>3, StoresListed
<1>5. \A c \in Client : reply'[c] \in {reply[c], vid[c]}
  BY DEF Aquire, SendVolume, AckOK, AckFailed, ConnectionLost, SpawnRemover, CheckReleased, DropRecord,
     clientVars, TypeInv, TypeOK
<1>6. \A u \in Thread : vid'[u] = vid[u]
  BY <1>2
<1> QED BY <1>2, <1>4, <1>5, <1>6 DEF Discreet, Thread, Worker

LEMMA ClientDiscreet ==
  ASSUME TypeInv, NEW c \in Client, ClientStep(c)
  PROVE  Discreet
<1>1. Quiet /\ reply' = reply
  BY DEF ClientStep, ClientAsks, ClientTurnedAway, ClientReceives, ClientAttaches, ClientAttachFails,
         ClientMounts, ClientMountFails, ClientDiscards, ClientAnswers, ClientDies, ClientDetaches,
         ClientDeletes, ClientReleaseFails, NotifyLost, ClientNotifies, Quiet, listVars, fileVars
<1>2. Listed' = Listed
  BY <1>1, QuietLists
<1>3. PICK x \in {"detaching", "deleted", c} : ebs' = ebs \/ ebs' = [ebs EXCEPT ![reply[c]] = x]
  BY DEF ClientStep, ClientAsks, ClientTurnedAway, ClientReceives, ClientAttaches, ClientAttachFails,
         ClientMounts, ClientMountFails, ClientDiscards, ClientAnswers, ClientDies, ClientDetaches,
         ClientDeletes, ClientReleaseFails, NotifyLost, ClientNotifies, Deletes, Detaches, ec2Vars
<1>4. x # "absent"
  BY InstanceAssumption
<1>5. PICK t \in Thread \ Creator : vid' = vid \/ vid' = [vid EXCEPT ![t] = reply[c]]
  <2>1. vid' = vid \/ \E t \in Releaser : vid' = [vid EXCEPT ![t] = reply[c]]
    BY DEF ClientStep, ClientAsks, ClientTurnedAway, ClientReceives, ClientAttaches, ClientAttachFails,
         ClientMounts, ClientMountFails, ClientDiscards, ClientAnswers, ClientDies, ClientDetaches,
         ClientDeletes, ClientReleaseFails, NotifyLost, ClientNotifies, localVars
  <2>2. c \in Thread \ Creator /\ Releaser \subseteq Thread \ Creator
    BY ThreadAssumption DEF Thread, Worker, Taker
  <2> QED BY <2>1, <2>2
<1> QED BY <1>1, <1>2, <1>3, <1>4, <1>5, WorkerDiscreet

\* main, a stop, and EC2.
LEMMA MainDiscreet ==
  ASSUME TypeInv, StartUp \/ Crash \/ \E v \in Volume : EbsDetached(v)
  PROVE  Discreet
<1>1. Main \in Thread \ Creator
  BY ThreadAssumption DEF Thread, Worker
<1>2. CASE StartUp
  <2>1. UNCHANGED <<volumeFile, buf, vid, reply>>
    BY <1>2 DEF StartUp, LoadFile, RemountEnds, RemountKeeps, RemountMounts, RemountDrops, fileVars, clientVars
  <2>2. PICK v : /\ m_volumes' \in {m_volumes, volumeFile, Erased(m_volumes, v)}
                 /\ ebs' = ebs \/ ebs' = [ebs EXCEPT ![v] = "detaching"]
    BY <1>2 DEF StartUp, LoadFile, RemountEnds, RemountKeeps, RemountMounts, RemountDrops, Stores, Detaches,
       listVars, ec2Vars
  <2>3. Listed' \subseteq Listed
    BY <2>1, <2>2, StoresListed
  <2> QED BY <1>1, <2>1, <2>2, <2>3, WorkerDiscreet
<1>3. CASE Crash
  <2>1. /\ buf' = [t \in Thread |-> <<>>] /\ vid' = [t \in Thread |-> NoVolume] /\ m_volumes' = <<>>
        /\ UNCHANGED <<volumeFile, reply, ebs>>
    BY <1>3 DEF Crash, clientVars
  <2>2. Listed' \subseteq Listed
    BY <2>1, EmptyLists DEF Listed
  <2> QED BY <2>1, <2>2 DEF Discreet, Thread, Worker
<1>4. ASSUME NEW v \in Volume, EbsDetached(v) PROVE Discreet
  <2>1. Quiet /\ UNCHANGED <<reply, vid>> /\ ebs' = [ebs EXCEPT ![v] = "available"]
    BY <1>4 DEF EbsDetached, Quiet, listVars, fileVars, clientVars, localVars
  <2>2. Listed' \subseteq Listed
    BY <2>1, QuietLists
  <2> QED BY <1>1, <2>1, <2>2, WorkerDiscreet
<1> QED BY <1>2, <1>3, <1>4

\* A creator forgets its volume, but for its creation and its push_back.
LEMMA CreateDiscreet ==
  ASSUME TypeInv, NEW t \in Creator, Create(t) \/ SpawnCreator(t), ~CreateVolume(t), ~AddVolume(t)
  PROVE  Discreet
<1>1. Quiet /\ reply' = reply
  BY DEF Create, SpawnCreator, LoadCounter, StoreCounter, CreateFails, CreateMisread,
         AttachDone, AttachFails, DeleteUnattached, MountDone, MountGivenUp, Quiet, listVars, fileVars,
         clientVars
<1>2. Listed' = Listed
  BY <1>1, QuietLists
<1>3. PICK x \in {"detaching", "deleted", Here} : ebs' = ebs \/ ebs' = [ebs EXCEPT ![vid[t]] = x]
  BY DEF Create, SpawnCreator, LoadCounter, StoreCounter, CreateFails, CreateMisread,
         AttachDone, AttachFails, DeleteUnattached, MountDone, MountGivenUp, Deletes, Detaches, ec2Vars
<1>4. \A v \in Volume : ebs[v] # "absent" => ebs'[v] # "absent"
  BY <1>3, VolumesStay DEF Here
<1>5. vid' = vid \/ vid' = [vid EXCEPT ![t] = NoVolume]
  BY DEF Create, SpawnCreator, LoadCounter, StoreCounter, CreateFails, CreateMisread,
         AttachDone, AttachFails, DeleteUnattached, MountDone, MountGivenUp, localVars
<1>6. \A u \in Thread : vid'[u] \in {vid[u], NoVolume}
  BY <1>5 DEF TypeInv, TypeOK
<1> QED BY <1>1, <1>2, <1>4, <1>6 DEF Discreet, Thread, Worker

\* What is created did not exist, so nobody knew it.
LEMMA CreatedOwned ==
  ASSUME TypeInv, OwnedInv, NEW t \in Creator, CreateVolume(t)
  PROVE  OwnedInv'
<1>1. Quiet /\ reply' = reply
  BY DEF Quiet, listVars, fileVars, clientVars, CreateVolume
<1>2. Listed' = Listed /\ Listed \subseteq Volume
  BY <1>1, QuietLists, OfferedVolumes
<1>3. PICK v \in Volume : /\ ebs[v] = "absent" /\ ebs' = [ebs EXCEPT ![v] = "available"]
                          /\ vid' = [vid EXCEPT ![t] = v]
  BY DEF CreateVolume
<1>4. /\ v \notin Listed /\ v # NoVolume
      /\ \A u \in Thread : vid[u] # v
      /\ \A c \in Client : reply[c] # v
  BY <1>3, VolumeAssumption DEF OwnedInv, CreatedInv
<1>5. t \in Thread
  BY DEF Thread, Worker
<1> QED BY <1>1, <1>2, <1>3, <1>4, <1>5
       DEF TypeInv, TypeOK, OwnedInv, FreshInv, CreatedInv, Thread, Worker

\* What is added was its creator's, who forgets it.
LEMMA AddedOwned ==
  ASSUME TypeInv, OwnedInv, NEW t \in Creator, AddVolume(t)
  PROVE  OwnedInv'
<1> DEFINE v == vid[t]
<1>1. /\ pc[t] = "add" /\ m_volumes' = Append(m_volumes, IdleRecord(v))
      /\ vid' = [vid EXCEPT ![t] = NoVolume] /\ UNCHANGED <<volumeFile, buf, reply, ebs>>
  BY DEF AddVolume, Moves, Stores, fileVars, ec2Vars, clientVars
<1>2. v \in Volume /\ v # NoVolume /\ t \in Thread /\ Creator \subseteq Thread
  BY <1>1 DEF TypeInv, TypeOK, Thread, Worker
<1>3. Ids(m_volumes') = Ids(m_volumes) \cup {v}
  BY <1>1, <1>2, AppendedList DEF TypeInv, TypeOK
<1>4. Listed' = Listed \cup {v}
  BY <1>1, <1>3 DEF Listed
<1>5. /\ \A u \in Thread \ {t} : vid[u] # v /\ vid'[u] = vid[u]
      /\ \A c \in Client : reply[c] # v
      /\ vid'[t] = NoVolume /\ ebs[v] # "absent"
  BY <1>1, <1>2 DEF OwnedInv, FreshInv, CreatedInv, TypeInv, TypeOK
<1> HIDE DEF v
<1>6. FreshInv'
  BY <1>1, <1>2, <1>4, <1>5 DEF OwnedInv, FreshInv
<1>7. CreatedInv'
  BY <1>1, <1>4, <1>5 DEF OwnedInv, CreatedInv
<1> QED BY <1>6, <1>7 DEF OwnedInv

LEMMA NextOwned ==
  ASSUME TypeInv, OwnedInv, [Next]_vars
  PROVE  OwnedInv'
<1>1. CASE UNCHANGED vars
  BY <1>1 DEF vars, listVars, fileVars, ec2Vars, clientVars, localVars, OwnedInv, FreshInv, CreatedInv, Listed
<1>2. ASSUME NEW t \in Creator, Create(t) \/ SpawnCreator(t) PROVE OwnedInv'
  BY <1>2, CreatedOwned, AddedOwned, CreateDiscreet, DiscreetOwned
<1>3. CASE Next
  BY <1>2, <1>3, DiscreetOwned, WriteDiscreet, ReleaseDiscreet, AquireDiscreet, ClientDiscreet, MainDiscreet
  DEF Next
<1> QED BY <1>1, <1>3

-----------------------------------------------------------------------------
(* What a client is sent is neither attached nor mounted here.             *)

Gone(v) == ebs[v] # Here /\ mountedAt[v] # Here

\* A mount here is of a volume attached here, or about to be detached.
MountInv == \A v \in Volume : mountedAt[v] = Here => ebs[v] \in {Here, "detaching"}

\* What a handler is about to send.
SendInv == \A c \in Client : (pc[c] = "send" /\ vid[c] # NoVolume) => Gone(vid[c])

DetachedInv == MountInv /\ SentIsDetached /\ SendInv

\* A step that attaches only a creator's volume, mounts only what is attached,
\* sends only what is about to be sent, and that only when it was available.
Careful ==
  /\ \A v \in Volume :
       /\ ebs'[v] = Here => ebs[v] = Here \/ \E t \in Creator : vid[t] = v
       /\ mountedAt'[v] = Here => mountedAt[v] = Here \/ ebs[v] = Here
       /\ mountedAt'[v] = Here => ebs'[v] \in {Here, "detaching"}
  /\ \A c \in Client :
       /\ reply'[c] = reply[c] \/ (pc[c] = "send" /\ reply'[c] = vid[c])
       /\ pc'[c] = "send" => vid'[c] = vid[c] /\ (pc[c] = "send" \/ ebs[vid[c]] = "available")

LEMMA CarefulDetached ==
  ASSUME TypeInv, FreshInv, DetachedInv, Careful
  PROVE  DetachedInv'
<1>1. \A v \in Volume : (Gone(v) /\ \A t \in Creator : vid[t] # v) => Gone(v)'
  BY DEF Careful, Gone
<1>2. \A c \in Client : reply[c] \in Volume \cup {NoVolume} /\ vid[c] \in Volume \cup {NoVolume}
  BY DEF TypeInv, TypeOK, Thread, Worker, Taker
<1>3. \A c \in Client, t \in Creator :
        (vid[c] # NoVolume => vid[t] # vid[c]) /\ (reply[c] # NoVolume => vid[t] # reply[c])
  BY ThreadAssumption DEF FreshInv, Thread, Worker, Taker
<1>4. \A v \in Volume : ebs[v] = "available" => Gone(v)
  BY InstanceAssumption DEF DetachedInv, MountInv, Gone, Here
<1>5. MountInv'
  BY DEF Careful, MountInv
<1>6. SendInv'
  BY <1>1, <1>2, <1>3, <1>4 DEF Careful, DetachedInv, SendInv
<1>7. SentIsDetached'
  <2> SUFFICES ASSUME NEW c \in Client, reply'[c] # NoVolume PROVE Gone(reply[c])'
    BY DEF SentIsDetached, Gone
  <2>1. CASE reply'[c] = reply[c]
    BY <1>1, <1>2, <1>3, <2>1 DEF DetachedInv, SentIsDetached, Gone
  <2>2. CASE pc[c] = "send" /\ reply'[c] = vid[c]
    <3>1. Gone(vid[c]) /\ vid[c] \in Volume /\ \A t \in Creator : vid[t] # vid[c]
      BY <1>2, <1>3, <2>2 DEF DetachedInv, SendInv
    <3> QED BY <1>1, <2>2, <3>1 DEF Gone
  <2> QED BY <2>1, <2>2 DEF Careful
<1> QED BY <1>5, <1>6, <1>7 DEF DetachedInv

\* Steps that change no volume, send nothing and bring no client to its send.
LEMMA StillCareful ==
  ASSUME TypeInv, DetachedInv, UNCHANGED <<ebs, mountedAt, reply>>,
         \A c \in Client : pc'[c] = "send" => pc[c] = "send" /\ vid'[c] = vid[c]
  PROVE  Careful
BY DEF Careful, DetachedInv, MountInv

\* A step of a thread that is no client's handler.
LEMMA OthersCareful ==
  ASSUME TypeInv, DetachedInv, NEW t \in Thread \ Client, NEW p, pc' = [pc EXCEPT ![t] = p],
         UNCHANGED <<ebs, mountedAt, reply>>, \A c \in Client : vid'[c] = vid[c]
  PROVE  Careful
<1>1. \A c \in Client : pc'[c] = pc[c]
  BY DEF TypeInv, TypeOK, Thread, Worker, Taker
<1> QED BY <1>1, StillCareful

LEMMA WriteCareful ==
  ASSUME TypeInv, DetachedInv, NEW t \in Thread, WriteStep(t)
  PROVE  Careful
BY StillCareful DEF WriteStep, OpenFile, OpenFails, CopyRecords, CloseFile, ec2Vars, clientVars, localVars

LEMMA ReleaseCareful ==
  ASSUME TypeInv, DetachedInv, NEW t \in Taker, Release(t)
  PROVE  Careful
<1>0. /\ t \in Thread /\ Client \subseteq Thread /\ pc \in [Thread -> Control]
      /\ vid \in [Thread -> Volume \cup {NoVolume}]
      /\ ebs \in [Volume -> EbsState] /\ mountedAt \in [Volume -> Instance \cup {"nowhere"}]
  BY DEF TypeInv, TypeOK, Thread, Worker, Taker
<1>1. CASE GetIdleVolume(t) \/ NoIdleVolume(t) \/ DetachRefused(t) \/ DetachTimeout(t) \/ MarkTaken(t)
  <2>1. /\ UNCHANGED <<ebs, mountedAt, reply, vid>>
        /\ \E p \in Control \ {"send"} : pc' = [pc EXCEPT ![t] = p]
    BY <1>1 DEF GetIdleVolume, NoIdleVolume, DetachRefused, DetachTimeout, MarkTaken, Moves,
         ec2Vars, clientVars, localVars, Control
  <2> QED BY <1>0, <2>1, StillCareful
<1>2. CASE ReadRecord(t) \/ MarkUndetached(t)
  <2>1. /\ UNCHANGED <<ebs, mountedAt, reply>> /\ \A u \in Thread \ {t} : vid'[u] = vid[u]
        /\ \E p \in Control \ {"send"} : pc' = [pc EXCEPT ![t] = p]
    BY <1>0, <1>2 DEF ReadRecord, MarkUndetached, Moves, ec2Vars, clientVars, Control
  <2> QED BY <1>0, <2>1, StillCareful
<1>3. CASE DetachDone(t)
  <2>1. /\ UNCHANGED <<ebs, mountedAt, reply, vid>> /\ ebs[vid[t]] = "available"
        /\ \E p \in Control : pc' = [pc EXCEPT ![t] = p]
    BY <1>3 DEF DetachDone, Moves, ec2Vars, clientVars, localVars, Control
  <2> QED BY <1>0, <2>1 DEF Careful, DetachedInv, MountInv
<1>4. CASE Umount(t)
  <2>1. /\ UNCHANGED <<ebs, reply, vid>> /\ pc' = [pc EXCEPT ![t] = "detach"]
        /\ \A v \in Volume : mountedAt'[v] = Here => mountedAt[v] = Here
    BY <1>0, <1>4, InstanceAssumption DEF Umount, Moves, clientVars, localVars, Here
  <2> QED BY <1>0, <2>1 DEF Careful, DetachedInv, MountInv
<1>5. CASE DetachIssue(t)
  <2>1. /\ UNCHANGED <<mountedAt, reply, vid>> /\ pc' = [pc EXCEPT ![t] = "detaching"]
        /\ ebs' = [ebs EXCEPT ![vid[t]] = "detaching"]
    BY <1>5 DEF DetachIssue, Detaches, Moves, clientVars, localVars
  <2> QED BY <1>0, <2>1 DEF Careful, DetachedInv, MountInv, Here
<1> QED BY <1>1, <1>2, <1>3, <1>4, <1>5 DEF Release

LEMMA DeleteCareful ==
  ASSUME TypeInv, DetachedInv, NEW t \in Taker, DeleteTaken(t)
  PROVE  Careful
<1>1. /\ UNCHANGED <<mountedAt, reply, vid>>
      /\ pc' = [pc EXCEPT ![t] = IF t \in Client THEN "done" ELSE "drop"]
      /\ ebs' = ebs \/ (ebs[vid[t]] = "available" /\ ebs' = [ebs EXCEPT ![vid[t]] = "deleted"])
  BY DEF DeleteTaken, Deletes, Moves, clientVars, localVars
<1> QED BY <1>1, InstanceAssumption
      DEF Careful, DetachedInv, MountInv, Here, TypeInv, TypeOK, Thread, Worker, Taker

LEMMA AquireCareful ==
  ASSUME TypeInv, DetachedInv, NEW c \in Client, Aquire(c)
  PROVE  Careful
<1>1. /\ UNCHANGED <<ebs, mountedAt, vid>> /\ \E p \in Control \ {"send"} : pc' = [pc EXCEPT ![c] = p]
      /\ reply' = reply \/ (pc[c] = "send" /\ \A d \in Client : reply'[d] = reply[d] \/ (d = c /\ reply'[d] = vid[c]))
  BY DEF Aquire, SendVolume, AckOK, AckFailed, ConnectionLost, Moves, Control, TypeInv, TypeOK,
     ec2Vars, clientVars, localVars
<1> QED BY <1>1 DEF Careful, DetachedInv, MountInv, TypeInv, TypeOK, Thread, Worker, Taker

LEMMA ClientCareful ==
  ASSUME TypeInv, DetachedInv, NEW c \in Client, ClientStep(c)
  PROVE  Careful
<1>0. /\ Client \subseteq Thread /\ Releaser \subseteq Thread /\ Releaser \cap Client = {}
      /\ pc \in [Thread -> Control] /\ vid \in [Thread -> Volume \cup {NoVolume}]
      /\ ebs \in [Volume -> EbsState] /\ mountedAt \in [Volume -> Instance \cup {"nowhere"}]
      /\ c # Here /\ {"available", "nowhere"} \cap {Here} = {} /\ "detaching" \notin Client
  BY ThreadAssumption, InstanceAssumption DEF TypeInv, TypeOK, Thread, Worker, Taker, Here
<1>1. CASE ClientAsks(c)
  BY <1>0, <1>1, StillCareful DEF ClientAsks, ec2Vars, localVars
<1>2. ASSUME NEW t \in Releaser, ClientNotifies(c, t) PROVE Careful
  BY <1>0, <1>2, OthersCareful DEF ClientNotifies, ec2Vars
<1>3. CASE ClientTurnedAway(c) \/ ClientReceives(c) \/ ClientAnswers(c) \/ ClientDies(c)
           \/ ClientReleaseFails(c) \/ NotifyLost(c)
  BY <1>3, StillCareful DEF ClientTurnedAway, ClientReceives, ClientAnswers, ClientDies,
     ClientReleaseFails, NotifyLost, ec2Vars, localVars
<1>4. CASE ClientAttaches(c) \/ ClientAttachFails(c) \/ ClientMounts(c) \/ ClientMountFails(c)
           \/ ClientDiscards(c) \/ ClientDetaches(c) \/ ClientDeletes(c)
  <2>1. UNCHANGED <<reply, vid, pc>>
    BY <1>4 DEF ClientAttaches, ClientAttachFails, ClientMounts, ClientMountFails, ClientDiscards,
         ClientDetaches, ClientDeletes, localVars
  <2>2. \A v \in Volume : mountedAt'[v] = Here => mountedAt[v] = Here
    BY <1>0, <1>4 DEF ClientAttaches, ClientAttachFails, ClientMounts, ClientMountFails, ClientDiscards,
         ClientDetaches, ClientDeletes, Deletes
  <2>3. \A v \in Volume : /\ ebs'[v] = Here => ebs[v] = Here
                          /\ \/ ebs'[v] = ebs[v]
                             \/ ebs'[v] = "detaching"
                             \/ ebs[v] = "available"
    BY <1>0, <1>4 DEF ClientAttaches, ClientAttachFails, ClientMounts, ClientMountFails, ClientDiscards,
         ClientDetaches, ClientDeletes, Deletes, Detaches, Here
  <2> QED BY <1>0, <2>1, <2>2, <2>3 DEF Careful, DetachedInv, MountInv, Here
<1> QED BY <1>1, <1>2, <1>3, <1>4 DEF ClientStep

LEMMA CreateCareful ==
  ASSUME TypeInv, DetachedInv, NEW t \in Creator, Create(t) \/ SpawnCreator(t)
  PROVE  Careful
<1>0. /\ t \in Thread \ Client /\ Client \subseteq Thread
      /\ pc \in [Thread -> Control] /\ vid \in [Thread -> Volume \cup {NoVolume}]
      /\ ebs \in [Volume -> EbsState] /\ mountedAt \in [Volume -> Instance \cup {"nowhere"}]
  BY ThreadAssumption DEF TypeInv, TypeOK, Thread, Worker, Taker
<1>1. /\ reply' = reply /\ (\E p : pc' = [pc EXCEPT ![t] = p])
      /\ vid' = vid \/ \E v : vid' = [vid EXCEPT ![t] = v]
  BY DEF Create, SpawnCreator, LoadCounter, StoreCounter, CreateVolume, CreateFails, CreateMisread,
     AttachDone, AttachFails, DeleteUnattached, MountDone, MountGivenUp, AddVolume, Moves, clientVars,
     localVars
<1>2. \A c \in Client : pc'[c] = pc[c] /\ vid'[c] = vid[c]
  BY <1>0, <1>1
<1>3. CASE UNCHANGED <<ebs, mountedAt>>
  BY <1>1, <1>2, <1>3, StillCareful
<1>4. CASE CreateVolume(t) \/ AttachDone(t) \/ AttachFails(t) \/ DeleteUnattached(t)
  <2>1. /\ mountedAt' = mountedAt
        /\ \A v \in Volume : /\ ebs'[v] = Here => ebs[v] = Here \/ vid[t] = v
                             /\ ebs'[v] = ebs[v] \/ ebs[v] \in {"absent", "available"}
    BY <1>0, <1>4 DEF CreateVolume, AttachDone, AttachFails, DeleteUnattached, Deletes, Here
  <2> QED BY <1>0, <1>1, <1>2, <2>1, InstanceAssumption DEF Careful, DetachedInv, MountInv, Here
<1>5. CASE MountDone(t) \/ MountGivenUp(t)
  <2>1. \A v \in Volume : /\ mountedAt'[v] = Here => mountedAt[v] = Here \/ ebs[v] = Here
                          /\ ebs'[v] = ebs[v] \/ ebs'[v] = "detaching"
    BY <1>0, <1>5 DEF MountDone, MountGivenUp, Detaches
  <2> QED BY <1>0, <1>1, <1>2, <2>1 DEF Careful, DetachedInv, MountInv, Here
<1> QED BY <1>3, <1>4, <1>5 DEF Create, SpawnCreator, LoadCounter, StoreCounter, CreateFails,
      CreateMisread, AddVolume, ec2Vars

LEMMA StartUpCareful ==
  ASSUME TypeInv, DetachedInv, StartUp
  PROVE  Careful
<1>0. /\ Main \in Thread \ Client /\ Client \subseteq Thread
      /\ pc \in [Thread -> Control] /\ m_volumes \in Seq(Record)
      /\ ebs \in [Volume -> EbsState] /\ mountedAt \in [Volume -> Instance \cup {"nowhere"}]
  BY ThreadAssumption DEF TypeInv, TypeOK, Thread, Worker, Taker
<1>1. /\ UNCHANGED <<reply, vid>> /\ \E p : pc' = [pc EXCEPT ![Main] = p]
  BY DEF StartUp, LoadFile, RemountEnds, RemountKeeps, RemountMounts, RemountDrops, Remounts, Moves,
     clientVars
<1>2. \A c \in Client : pc'[c] = pc[c]
  BY <1>0, <1>1
<1>3. \A v \in Volume : /\ mountedAt'[v] = Here => mountedAt[v] = Here \/ ebs[v] = Here
                        /\ ebs'[v] = ebs[v] \/ ebs'[v] = "detaching"
                        /\ ebs'[v] = ebs[v] \/ mountedAt' = mountedAt
  BY <1>0 DEF StartUp, LoadFile, RemountEnds, RemountKeeps, RemountMounts, RemountDrops, Detaches, ec2Vars
<1> QED BY <1>1, <1>2, <1>3 DEF Careful, DetachedInv, MountInv, Here

LEMMA NextDetached ==
  ASSUME TypeInv, OwnedInv, DetachedInv, [Next]_vars
  PROVE  DetachedInv'
<1>1. (Remover \cup Releaser) \subseteq Thread \ Client
  BY ThreadAssumption DEF Thread, Worker, Taker
<1>2. ASSUME NEW t \in Remover \cup Releaser, SpawnRemover(t) \/ CheckReleased(t) \/ DropRecord(t)
      PROVE  Careful
  BY <1>1, <1>2, OthersCareful DEF SpawnRemover, CheckReleased, DropRecord, Moves, ec2Vars, clientVars, localVars
<1>3. ASSUME Crash PROVE Careful
  <2>1. UNCHANGED <<ebs, reply>> /\ \A v \in Volume : mountedAt'[v] = Here => mountedAt[v] = Here
    BY <1>3 DEF Crash, clientVars, Here
  <2>2. \A c \in Client : pc'[c] # "send"
    BY <1>3, ThreadAssumption DEF Crash, Thread, Worker, Taker
  <2> QED BY <2>1, <2>2 DEF Careful, DetachedInv, MountInv
<1>4. ASSUME NEW v \in Volume, EbsDetached(v) PROVE Careful
  BY <1>4 DEF EbsDetached, Careful, DetachedInv, MountInv, TypeInv, TypeOK, clientVars, localVars, Here
<1>5. ASSUME UNCHANGED vars PROVE Careful
  <2>1. UNCHANGED <<ebs, mountedAt, reply, vid, pc>>
    BY <1>5 DEF vars, ec2Vars, clientVars, localVars
  <2> QED BY <2>1, StillCareful
<1>6. ASSUME Next PROVE Careful
  BY <1>6, <1>2, <1>3, <1>4, <1>5, WriteCareful, ReleaseCareful, DeleteCareful, AquireCareful, ClientCareful,
     CreateCareful, StartUpCareful DEF Next
<1> QED BY <1>5, <1>6, CarefulDetached DEF OwnedInv

\* A client can attach what it is sent: the volume is neither attached nor mounted
\* here, and no thread nor a later run of the daemon attaches it again, whatever
\* stops, restarts of the machine and failed writes there are.
THEOREM SentCanBeAttached == Spec => []SentIsDetached
<1>1. Init => TypeInv /\ OwnedInv /\ DetachedInv
  <2>1. Init => MountInv /\ SentIsDetached
    BY DEF Init, MountInv, SentIsDetached, Here
  <2>2. Init => SendInv
    BY DEF Init, SendInv, Thread, Worker, Taker
  <2> QED BY <2>1, <2>2, InitType, InitReady DEF DetachedInv, ReadyInv, LedgerInv, OwnedInv
<1>2. TypeInv /\ OwnedInv /\ DetachedInv /\ [Next]_vars => (TypeInv /\ OwnedInv /\ DetachedInv)'
  BY NextType, NextOwned, NextDetached
<1>3. DetachedInv => SentIsDetached
  BY DEF DetachedInv
<1> QED BY <1>1, <1>2, <1>3, PTL DEF Spec

-----------------------------------------------------------------------------
(* What is listed as used was mounted by the client it names.              *)

\* Of the records of s, those that are used, judged by what the clients were sent
\* and have answered.
UsedIn(s, r, a) ==
  \A i \in DOMAIN s :
    s[i].status = "used" =>
      /\ s[i].attachedTo \in Client
      /\ r[s[i].attachedTo] = s[i].id /\ a[s[i].attachedTo] = "OK"

\* The list, the file and the copies on their way to it: a restart makes the list
\* of what the file says.
UsedInv ==
  /\ UsedIn(m_volumes, reply, ack) /\ UsedIn(volumeFile, reply, ack)
  /\ \A t \in Thread : UsedIn(buf[t], reply, ack)

\* A client answers OK for what it was sent, and that is what its handler holds.
AnswerInv ==
  \A c \in Client :
    /\ ack[c] = "OK" => reply[c] # NoVolume /\ cli[c] \in {"using", "leaving", "notify", "over"}
    /\ ack[c] = "closed" => cli[c] = "over"
    /\ cli[c] \in {"attach", "mount", "mounted", "discard", "failed"} => reply[c] # NoVolume
    /\ pc[c] = "ack" => ack[c] = "closed" \/ reply[c] = vid[c]

\* An answer OK stays, and so does what it was given for.
OKKept == \A c \in Client : ack[c] = "OK" => ack'[c] = "OK" /\ reply'[c] = reply[c]

\* erase, of any record.
LEMMA ErasedUsed ==
  ASSUME NEW s \in Seq(Record), NEW v, NEW r, NEW a, UsedIn(s, r, a)
  PROVE  UsedIn(Erased(s, v), r, a)
BY ErasedRecords DEF UsedIn

\* update: to another status than used, or to used by a client that has answered
\* OK for this volume.
LEMMA UpdatedUsed ==
  ASSUME NEW s \in Seq(Record), NEW v, NEW st, NEW at, NEW r, NEW a, UsedIn(s, r, a),
         st = "used" => at \in Client /\ r[at] = v /\ a[at] = "OK"
  PROVE  UsedIn(Updated(s, v, st, at), r, a)
<1> DEFINE u == Updated(s, v, st, at)
<1>1. NoPlace \notin Client
  BY InstanceAssumption
<1>2. DOMAIN u = DOMAIN s
  BY DEF Updated
<1>3. ASSUME NEW i \in DOMAIN s, u[i].status = "used"
      PROVE  u[i].attachedTo \in Client /\ r[u[i].attachedTo] = u[i].id /\ a[u[i].attachedTo] = "OK"
  <2>1. CASE IsFirst(s, v, i)
    <3> DEFINE x == IF at = NoPlace THEN s[i].attachedTo ELSE at
    <3>1. u[i] = [id |-> v, status |-> st, attachedTo |-> x]
      BY <2>1 DEF Updated
    <3>2. u[i].id = v /\ u[i].status = st /\ u[i].attachedTo = x
      BY <3>1
    <3>3. at \in Client /\ r[at] = v /\ a[at] = "OK"
      BY <1>3, <3>2
    <3>4. x = at
      BY <1>1, <3>3
    <3> QED BY <3>2, <3>3, <3>4
  <2>2. CASE ~IsFirst(s, v, i)
    <3>1. u[i] = s[i]
      BY <2>2 DEF Updated
    <3> QED BY <1>3, <3>1 DEF UsedIn
  <2> QED BY <2>1, <2>2
<1> QED BY <1>2, <1>3 DEF UsedIn

\* push_back of an idle volume.
LEMMA AppendedUsed ==
  ASSUME NEW s \in Seq(Record), NEW v \in Volume, NEW r, NEW a, UsedIn(s, r, a)
  PROVE  UsedIn(Append(s, IdleRecord(v)), r, a)
<1>1. IdleRecord(v).status # "used"
  BY DEF IdleRecord
<1>2. \A i \in DOMAIN Append(s, IdleRecord(v)) :
        Append(s, IdleRecord(v))[i].status = "used" =>
          i \in DOMAIN s /\ Append(s, IdleRecord(v))[i] = s[i]
  BY <1>1, AppendedRecords
<1> QED BY <1>2 DEF UsedIn

\* A step that keeps the answers, and leaves of each list what was well used.
LEMMA ListsUsed ==
  ASSUME OKKept, UsedIn(m_volumes', reply, ack), UsedIn(volumeFile', reply, ack),
         \A t \in Thread : UsedIn(buf'[t], reply, ack)
  PROVE  UsedInv'
<1>1. \A s : UsedIn(s, reply, ack) => UsedIn(s, reply', ack')
  BY DEF OKKept, UsedIn
<1> QED BY <1>1 DEF UsedInv

\* A step of a thread t that stores a list.
LEMMA StoresUsed ==
  ASSUME UsedInv, OKKept, UNCHANGED <<volumeFile, buf>>, UsedIn(m_volumes', reply, ack)
  PROVE  UsedInv'
BY ListsUsed DEF UsedInv

LEMMA QuietUsed ==
  ASSUME UsedInv, OKKept, UNCHANGED <<m_volumes, volumeFile, buf>>
  PROVE  UsedInv'
BY ListsUsed DEF UsedInv

-----------------------------------------------------------------------------
(* The answers.                                                            *)

\* Steps that concern no client: none is sent anything, and no handler comes to
\* wait for an answer.
LEMMA StillAnswers ==
  ASSUME AnswerInv, UNCHANGED <<cli, reply, ack>>,
         \A c \in Client : pc'[c] = "ack" => pc[c] = "ack" /\ vid'[c] = vid[c]
  PROVE  AnswerInv' /\ OKKept
BY DEF AnswerInv, OKKept

LEMMA OthersAnswer ==
  ASSUME TypeInv, AnswerInv, NEW t \in Thread \ Client, NEW p, pc' = [pc EXCEPT ![t] = p],
         UNCHANGED <<cli, reply, ack>>, \A c \in Client : vid'[c] = vid[c]
  PROVE  AnswerInv' /\ OKKept
<1>1. \A c \in Client : pc'[c] = pc[c]
  BY DEF TypeInv, TypeOK, Thread, Worker, Taker
<1> QED BY <1>1, StillAnswers

\* The steps of a thread that releases a volume.
LEMMA TakerAnswers ==
  ASSUME TypeInv, AnswerInv, NEW t \in Taker, Release(t) \/ DeleteTaken(t)
  PROVE  AnswerInv' /\ OKKept
<1>1. /\ t \in Thread /\ Client \subseteq Thread
      /\ pc \in [Thread -> Control] /\ vid \in [Thread -> Volume \cup {NoVolume}]
  BY DEF TypeInv, TypeOK, Thread, Worker, Taker
<1>2. /\ UNCHANGED <<cli, reply, ack>>
      /\ \E p \in Control \ {"ack"} : pc' = [pc EXCEPT ![t] = p]
      /\ vid' = vid \/ \E v : vid' = [vid EXCEPT ![t] = v]
  BY DEF Release, GetIdleVolume, NoIdleVolume, ReadRecord, MarkTaken, Umount, DetachIssue,
     DetachRefused, DetachDone, DetachTimeout, MarkUndetached, DeleteTaken, Moves, clientVars,
     localVars, Control
<1>3. \A c \in Client : pc'[c] = "ack" => pc[c] = "ack" /\ vid'[c] = vid[c]
  BY <1>1, <1>2
<1> QED BY <1>2, <1>3, StillAnswers

\* The steps of a client's handler after its release.
LEMMA AquireAnswers ==
  ASSUME TypeInv, SentInv, AnswerInv, NEW c \in Client, Aquire(c)
  PROVE  AnswerInv' /\ OKKept
<1>1. /\ c \in Thread /\ Client \subseteq Thread
      /\ pc \in [Thread -> Control] /\ reply \in [Client -> Volume \cup {NoVolume}]
  BY DEF TypeInv, TypeOK, Thread, Worker, Taker
<1>2. CASE AckOK(c) \/ AckFailed(c) \/ ConnectionLost(c)
  <2>1. /\ UNCHANGED <<cli, reply, ack, vid>>
        /\ \E p \in Control \ {"ack"} : pc' = [pc EXCEPT ![c] = p]
    BY <1>2 DEF AckOK, AckFailed, ConnectionLost, Moves, clientVars, localVars, Control
  <2> QED BY <1>1, <2>1, StillAnswers
<1>3. CASE SendVolume(c)
  <2>1. /\ pc[c] = "send" /\ pc' = [pc EXCEPT ![c] = "ack"] /\ UNCHANGED <<cli, ack, vid>>
        /\ reply' = [reply EXCEPT ![c] = IF ack[c] = "closed" THEN @ ELSE vid[c]]
    BY <1>3 DEF SendVolume, Moves, localVars
  <2>2. reply[c] = NoVolume
    BY <2>1 DEF SentInv
  <2> QED BY <1>1, <2>1, <2>2 DEF AnswerInv, OKKept
<1> QED BY <1>2, <1>3 DEF Aquire

LEMMA ClientAnswersWell ==
  ASSUME TypeInv, AnswerInv, NEW c \in Client, ClientStep(c)
  PROVE  AnswerInv' /\ OKKept
<1>0. /\ Client \subseteq Thread /\ Releaser \subseteq Thread /\ Releaser \cap Client = {}
      /\ pc \in [Thread -> Control] /\ vid \in [Thread -> Volume \cup {NoVolume}]
      /\ cli \in [Client -> ClientControl] /\ ack \in [Client -> {"none", "OK", "FAILED", "closed"}]
  BY ThreadAssumption DEF TypeInv, TypeOK, Thread, Worker, Taker
<1>1. /\ reply' = reply
      /\ \A d \in Client : /\ pc'[d] = "ack" => pc[d] = "ack"
                           /\ vid'[d] = vid[d]
  BY <1>0 DEF ClientStep, ClientAsks, ClientTurnedAway, ClientReceives, ClientAttaches, ClientAttachFails,
     ClientMounts, ClientMountFails, ClientDiscards, ClientAnswers, ClientDies, ClientDetaches,
     ClientDeletes, ClientReleaseFails, ClientNotifies, NotifyLost, localVars
<1>2. CASE ClientAnswers(c)
  BY <1>0, <1>1, <1>2 DEF ClientAnswers, ClientMoves, AnswerInv, OKKept
<1>3. CASE ClientDies(c)
  BY <1>0, <1>1, <1>3 DEF ClientDies, AnswerInv, OKKept
<1>4. CASE ~ClientAnswers(c) /\ ~ClientDies(c)
  <2>1. /\ ack' = ack /\ \A d \in Client \ {c} : cli'[d] = cli[d]
        /\ ack[c] = "OK" => cli'[c] \in {"using", "leaving", "notify", "over"}
        /\ cli[c] # "over"
        /\ cli'[c] \in {"attach", "mount", "mounted", "discard", "failed"} => reply[c] # NoVolume
    BY <1>0, <1>4 DEF ClientStep, ClientAsks, ClientTurnedAway, ClientReceives, ClientAttaches,
       ClientAttachFails, ClientMounts, ClientMountFails, ClientDiscards, ClientDetaches,
       ClientDeletes, ClientReleaseFails, ClientNotifies, NotifyLost, ClientMoves, AnswerInv
  <2> QED BY <1>1, <2>1 DEF AnswerInv, OKKept
<1> QED BY <1>2, <1>3, <1>4

LEMMA NextAnswer ==
  ASSUME TypeInv, SentInv, AnswerInv, [Next]_vars
  PROVE  AnswerInv' /\ OKKept
<1>1. (Remover \cup Releaser \cup Creator \cup {Main}) \subseteq Thread \ Client
  BY ThreadAssumption DEF Thread, Worker, Taker
<1>2. ASSUME NEW t \in Thread, WriteStep(t) PROVE AnswerInv' /\ OKKept
  BY <1>2, StillAnswers DEF WriteStep, OpenFile, OpenFails, CopyRecords, CloseFile, clientVars, localVars
<1>3. ASSUME NEW t \in Creator, Create(t) \/ SpawnCreator(t) PROVE AnswerInv' /\ OKKept
  <2>1. /\ UNCHANGED <<cli, reply, ack>> /\ \E p : pc' = [pc EXCEPT ![t] = p]
        /\ vid' = vid \/ \E v : vid' = [vid EXCEPT ![t] = v]
    BY <1>3 DEF Create, SpawnCreator, LoadCounter, StoreCounter, CreateVolume, CreateFails, CreateMisread,
       AttachDone, AttachFails, DeleteUnattached, MountDone, MountGivenUp, AddVolume, Moves, clientVars,
       localVars
  <2>2. \A c \in Client : vid'[c] = vid[c]
    BY <1>1, <2>1 DEF TypeInv, TypeOK, Thread, Worker, Taker
  <2> QED BY <1>1, <2>1, <2>2, OthersAnswer
<1>4. ASSUME NEW t \in Remover \cup Releaser, SpawnRemover(t) \/ CheckReleased(t) \/ DropRecord(t)
      PROVE  AnswerInv' /\ OKKept
  BY <1>1, <1>4, OthersAnswer DEF SpawnRemover, CheckReleased, DropRecord, Moves, clientVars, localVars
<1>5. CASE StartUp
  <2>1. UNCHANGED <<cli, reply, ack, vid>> /\ \E p : pc' = [pc EXCEPT ![Main] = p]
    BY <1>5 DEF StartUp, LoadFile, RemountEnds, RemountKeeps, RemountMounts, RemountDrops, Remounts, Moves,
       clientVars
  <2> QED BY <1>1, <2>1, OthersAnswer
<1>6. CASE Crash
  <2>1. \A c \in Client : pc'[c] # "ack"
    BY <1>6, ThreadAssumption DEF Crash, Thread, Worker, Taker
  <2> QED BY <1>6, <2>1, StillAnswers DEF Crash, clientVars
<1>7. ASSUME NEW v \in Volume, EbsDetached(v) PROVE AnswerInv' /\ OKKept
  BY <1>7, StillAnswers DEF EbsDetached, clientVars, localVars
<1>8. CASE UNCHANGED vars
  <2>1. UNCHANGED <<cli, reply, ack, vid, pc>>
    BY <1>8 DEF vars, clientVars, localVars
  <2> QED BY <2>1, StillAnswers
<1>9. CASE Next
  BY <1>9, <1>2, <1>3, <1>4, <1>5, <1>6, <1>7, TakerAnswers, AquireAnswers, ClientAnswersWell DEF Next
<1> QED BY <1>8, <1>9

-----------------------------------------------------------------------------
(* The lists.                                                              *)

LEMMA NextUsed ==
  ASSUME TypeInv, UsedInv, AnswerInv, OKKept, [Next]_vars
  PROVE  UsedInv'
<1>0. /\ m_volumes \in Seq(Record) /\ volumeFile \in Seq(Record) /\ Taker \subseteq Thread
      /\ vid \in [Thread -> Volume \cup {NoVolume}] /\ buf \in [Thread -> Seq(Record)]
  BY DEF TypeInv, TypeOK, Thread, Worker
<1>1. UsedIn(<<>>, reply, ack)
  BY DEF UsedIn
<1>2. ASSUME NEW t \in Thread, WriteStep(t) PROVE UsedInv'
  <2>1. \A u \in Thread : buf'[u] = buf[u] \/ buf'[u] = m_volumes \/ buf'[u] = <<>>
    BY <1>0, <1>2 DEF WriteStep, OpenFile, OpenFails, CopyRecords, CloseFile
  <2>2. m_volumes' = m_volumes /\ (volumeFile' = volumeFile \/ volumeFile' = <<>> \/ volumeFile' = buf[t])
    BY <1>2 DEF WriteStep, OpenFile, OpenFails, CopyRecords, CloseFile
  <2>3. \A u \in Thread : UsedIn(buf'[u], reply, ack)
    BY <1>1, <2>1 DEF UsedInv
  <2>4. UsedIn(m_volumes', reply, ack) /\ UsedIn(volumeFile', reply, ack)
    BY <1>1, <2>2 DEF UsedInv
  <2> QED BY <2>3, <2>4, ListsUsed
<1>3. ASSUME NEW t \in Taker, Release(t) \/ DeleteTaken(t) PROVE UsedInv'
  <2>1. /\ UNCHANGED <<volumeFile, buf>>
        /\ \/ m_volumes' = m_volumes
           \/ \E st \in {"inprogress", "failedToDetach"} :
                m_volumes' = Updated(m_volumes, vid[t], st, NoPlace)
    BY <1>3 DEF Release, GetIdleVolume, NoIdleVolume, ReadRecord, MarkTaken, Umount, DetachIssue,
       DetachRefused, DetachDone, DetachTimeout, MarkUndetached, DeleteTaken, UpdatesStatus, Stores,
       listVars, fileVars
  <2>2. UsedIn(m_volumes', reply, ack)
    BY <1>0, <2>1, UpdatedUsed DEF UsedInv
  <2> QED BY <2>1, <2>2, StoresUsed
<1>4. ASSUME NEW c \in Client, Aquire(c) PROVE UsedInv'
  <2>1. UNCHANGED <<volumeFile, buf>>
    BY <1>4 DEF Aquire, SendVolume, AckOK, AckFailed, ConnectionLost, fileVars
  <2>2. CASE SendVolume(c)
    BY <2>1, <2>2, QuietUsed DEF SendVolume, listVars
  <2>3. CASE AckOK(c)
    <3>1. reply[c] = vid[c] /\ ack[c] = "OK"
      BY <2>3 DEF AckOK, Moves, AnswerInv
    <3>2. m_volumes' = m_volumes \/ m_volumes' = Updated(m_volumes, vid[c], "used", c)
      BY <2>3 DEF AckOK, UpdatesStatus, Stores, listVars
    <3>3. UsedIn(m_volumes', reply, ack)
      BY <1>0, <3>1, <3>2, UpdatedUsed DEF UsedInv
    <3> QED BY <2>1, <3>3, StoresUsed
  <2>4. CASE AckFailed(c) \/ ConnectionLost(c)
    <3>1. m_volumes' = Erased(m_volumes, vid[c])
      BY <2>4 DEF AckFailed, ConnectionLost, Stores
    <3>2. UsedIn(m_volumes', reply, ack)
      BY <1>0, <3>1, ErasedUsed DEF UsedInv
    <3> QED BY <2>1, <3>2, StoresUsed
  <2> QED BY <1>4, <2>2, <2>3, <2>4 DEF Aquire
<1>5. ASSUME NEW c \in Client, ClientStep(c) PROVE UsedInv'
  BY <1>5, QuietUsed DEF ClientStep, ClientAsks, ClientTurnedAway, ClientReceives, ClientAttaches,
     ClientAttachFails, ClientMounts, ClientMountFails, ClientDiscards, ClientAnswers, ClientDies,
     ClientDetaches, ClientDeletes, ClientReleaseFails, ClientNotifies, NotifyLost, listVars, fileVars
<1>6. ASSUME NEW t \in Creator, Create(t) \/ SpawnCreator(t) PROVE UsedInv'
  <2>1. CASE AddVolume(t)
    <3>1. /\ UNCHANGED <<volumeFile, buf>> /\ vid[t] \in Volume
          /\ m_volumes' = Append(m_volumes, IdleRecord(vid[t]))
      BY <2>1 DEF AddVolume, Moves, Stores, fileVars, TypeInv, TypeOK, Thread, Worker
    <3>2. UsedIn(m_volumes', reply, ack)
      BY <1>0, <3>1, AppendedUsed DEF UsedInv
    <3> QED BY <3>1, <3>2, StoresUsed
  <2>2. CASE ~AddVolume(t)
    BY <1>6, <2>2, QuietUsed DEF Create, SpawnCreator, LoadCounter, StoreCounter, CreateVolume, CreateFails,
       CreateMisread, AttachDone, AttachFails, DeleteUnattached, MountDone, MountGivenUp, listVars, fileVars
  <2> QED BY <2>1, <2>2
<1>7. ASSUME NEW t \in Remover \cup Releaser, SpawnRemover(t) \/ CheckReleased(t) \/ DropRecord(t)
      PROVE  UsedInv'
  <2>1. UNCHANGED <<volumeFile, buf>> /\ (m_volumes' = m_volumes \/ m_volumes' = Erased(m_volumes, vid[t]))
    BY <1>7 DEF SpawnRemover, CheckReleased, DropRecord, Stores, listVars, fileVars
  <2>2. UsedIn(m_volumes', reply, ack)
    BY <1>0, <2>1, ErasedUsed DEF UsedInv
  <2> QED BY <2>1, <2>2, StoresUsed
<1>8. CASE StartUp
  <2>1. /\ UNCHANGED <<volumeFile, buf>>
        /\ m_volumes' \in {m_volumes, volumeFile} \/ \E v : m_volumes' = Erased(m_volumes, v)
    BY <1>8 DEF StartUp, LoadFile, RemountEnds, RemountKeeps, RemountMounts, RemountDrops, Stores, listVars,
       fileVars
  <2>2. UsedIn(m_volumes', reply, ack)
    BY <1>0, <2>1, ErasedUsed DEF UsedInv
  <2> QED BY <2>1, <2>2, StoresUsed
<1>9. CASE Crash
  <2>1. m_volumes' = <<>> /\ volumeFile' = volumeFile /\ \A t \in Thread : buf'[t] = <<>>
    BY <1>9 DEF Crash
  <2> QED BY <1>1, <2>1, ListsUsed DEF UsedInv
<1>10. ASSUME NEW v \in Volume, EbsDetached(v) PROVE UsedInv'
  BY <1>10, QuietUsed DEF EbsDetached, listVars, fileVars
<1>11. CASE UNCHANGED vars
  BY <1>11, QuietUsed DEF vars, listVars, fileVars
<1>12. CASE Next
  BY <1>12, <1>2, <1>3, <1>4, <1>5, <1>6, <1>7, <1>8, <1>9, <1>10 DEF Next
<1> QED BY <1>11, <1>12

\* What is listed as used by a client was sent to this client, and it has answered
\* OK for it: for any numbers of volumes, clients and threads, whichever of them
\* share a volume, and across any stops, restarts and failed writes.
THEOREM UsedIsMounted == Spec => []UsedWasMounted
<1>1. Init => TypeInv /\ SentInv /\ AnswerInv /\ UsedInv
  <2>1. Init => AnswerInv
    BY DEF Init, AnswerInv, Thread, Worker, Taker
  <2>2. Init => UsedInv
    BY DEF Init, UsedInv, UsedIn, IdleRecord
  <2> QED BY <2>1, <2>2, InitType, InitSent
<1>2. TypeInv /\ SentInv /\ AnswerInv /\ UsedInv /\ [Next]_vars =>
        (TypeInv /\ SentInv /\ AnswerInv /\ UsedInv)'
  BY NextType, NextSent, NextAnswer, NextUsed
<1>3. UsedInv => UsedWasMounted
  BY DEF UsedInv, UsedIn, UsedWasMounted
<1> QED BY <1>1, <1>2, <1>3, PTL DEF Spec
=============================================================================
