--------------------------- MODULE VolumePoolProofs ---------------------------
(***************************************************************************)
(* TLAPS proofs about VolumePool, for every value of its constants.        *)
(***************************************************************************)
EXTENDS VolumePoolInv, WellFoundedInduction, TLAPS

-----------------------------------------------------------------------------
(* What the operations on the list return.                                 *)

\* An id in the list has a first record.
LEMMA FirstExists ==
  ASSUME NEW s \in Seq(Record), NEW v \in Ids(s)
  PROVE  \E k \in DOMAIN s : IsFirst(s, v, k)
<1> DEFINE T == {n \in DOMAIN s : s[n].id = v}
<1>1. T # {}
  BY DEF Ids
<1>2. DOMAIN s = 1 .. Len(s) /\ Len(s) \in Nat /\ T \subseteq Nat
  OBVIOUS
<1>3. PICK k \in T : \A j \in T : ~(<<j, k>> \in OpToRel(<, Nat))
  BY <1>1, <1>2, NatLessThanWellFounded, WFMin
<1>4. \A j \in T : ~(j < k)
  BY <1>2, <1>3 DEF OpToRel
<1>5. \A j \in 1 .. k - 1 : s[j].id # v
  BY <1>2, <1>4
<1> QED BY <1>5 DEF IsFirst

\* Erased keeps a list of records; it drops v and nothing else.
LEMMA ErasedList ==
  ASSUME NEW s \in Seq(Record), NEW v
  PROVE  /\ Erased(s, v) \in Seq(Record)
         /\ Ids(Erased(s, v)) \subseteq Ids(s)
         /\ Ids(s) \ {v} \subseteq Ids(Erased(s, v))
         /\ Idle(Erased(s, v)) \subseteq Idle(s)
         /\ Unique(s) => Unique(Erased(s, v)) /\ v \notin Ids(Erased(s, v))
<1>1. CASE v \notin Ids(s)
  BY <1>1 DEF Erased
<1>2. CASE v \in Ids(s)
  <2> DEFINE i == CHOOSE k \in DOMAIN s : IsFirst(s, v, k)
             e == [j \in 1 .. Len(s) - 1 |-> IF j < i THEN s[j] ELSE s[j + 1]]
  <2>1. i \in DOMAIN s /\ IsFirst(s, v, i)
    BY <1>2, FirstExists
  <2>2. DOMAIN s = 1 .. Len(s) /\ Len(s) \in Nat /\ i \in 1 .. Len(s)
    BY <2>1
  <2>3. s[i].id = v
    BY <2>1 DEF IsFirst
  <2>4. Erased(s, v) = e
    BY <1>2 DEF Erased
  <2> HIDE DEF i
  <2>5. e \in Seq(Record) /\ Len(e) = Len(s) - 1 /\ DOMAIN e = 1 .. Len(s) - 1
    BY <2>2
  <2>6. \A j \in DOMAIN e : \E k \in DOMAIN s : k # i /\ e[j] = s[k]
    BY <2>2, <2>5
  <2>7. \A k \in DOMAIN s : k # i => \E j \in DOMAIN e : e[j] = s[k]
    <3> SUFFICES ASSUME NEW k \in DOMAIN s, k # i
                 PROVE  \E j \in DOMAIN e : e[j] = s[k]
      OBVIOUS
    <3>1. CASE k < i
      BY <3>1, <2>2, <2>5
    <3>2. CASE k > i
      <4>1. k - 1 \in DOMAIN e /\ e[k - 1] = s[k]
        BY <3>2, <2>2, <2>5
      <4> QED BY <4>1
    <3> QED BY <3>1, <3>2, <2>2
  <2>8. Unique(s) => Unique(e) /\ v \notin Ids(e)
    <3> SUFFICES ASSUME Unique(s) PROVE Unique(e) /\ v \notin Ids(e)
      OBVIOUS
    <3>1. Unique(e)
      BY <2>2, <2>5 DEF Unique
    <3>2. v \notin Ids(e)
      BY <2>1, <2>3, <2>6 DEF Unique, Ids
    <3> QED BY <3>1, <3>2
  <2> HIDE DEF e
  <2>9. Ids(e) \subseteq Ids(s) /\ Ids(s) \ {v} \subseteq Ids(e)
    BY <2>3, <2>6, <2>7 DEF Ids
  <2>10. Idle(e) \subseteq Idle(s)
    BY <2>6 DEF Idle, IdleAt
  <2> QED BY <2>4, <2>5, <2>8, <2>9, <2>10
<1> QED BY <1>1, <1>2

\* Updated keeps the records in place; a volume given a new status is not idle.
LEMMA UpdatedList ==
  ASSUME NEW s \in Seq(Record), NEW v, NEW st \in Status \ {"idle"},
         NEW at \in Client \cup {NoPlace}
  PROVE  /\ Updated(s, v, st, at) \in Seq(Record)
         /\ Ids(Updated(s, v, st, at)) = Ids(s)
         /\ Idle(Updated(s, v, st, at)) \subseteq Idle(s)
         /\ Unique(s) => /\ Unique(Updated(s, v, st, at))
                         /\ v \notin Idle(Updated(s, v, st, at))
<1> DEFINE u == Updated(s, v, st, at)
<1>1. DOMAIN s = 1 .. Len(s) /\ Len(s) \in Nat /\ \A i \in DOMAIN s : s[i] \in Record
  OBVIOUS
<1>2. u = [i \in 1 .. Len(s) |-> u[i]]
  BY <1>1 DEF Updated
<1> HIDE DEF u
<1>3. \A i \in DOMAIN s : /\ u[i] \in Record /\ u[i].id = s[i].id
                          /\ IsFirst(s, v, i) => u[i].status = st
                          /\ ~IsFirst(s, v, i) => u[i] = s[i]
  <2> SUFFICES ASSUME NEW i \in DOMAIN s
               PROVE  /\ u[i] \in Record /\ u[i].id = s[i].id
                      /\ IsFirst(s, v, i) => u[i].status = st
                      /\ ~IsFirst(s, v, i) => u[i] = s[i]
    OBVIOUS
  <2> DEFINE x == IF at = NoPlace THEN s[i].attachedTo ELSE at
  <2>1. s[i] \in Record
    BY <1>1
  <2>2. x \in Instance
    BY <2>1 DEF Record, Instance
  <2>3. u[i] = IF IsFirst(s, v, i)
               THEN [id |-> v, status |-> st, attachedTo |-> x] ELSE s[i]
    BY DEF u, Updated
  <2> HIDE DEF x
  <2> QED BY <2>1, <2>2, <2>3 DEF Record, IsFirst
<1>4. u \in Seq(Record) /\ DOMAIN u = DOMAIN s
  <2>1. \A i \in 1 .. Len(s) : u[i] \in Record
    BY <1>1, <1>3
  <2> QED BY <1>1, <1>2, <2>1
<1>5. Ids(u) = Ids(s)
  BY <1>3, <1>4 DEF Ids
<1>6. Idle(u) \subseteq Idle(s)
  BY <1>3, <1>4 DEF Idle, IdleAt
<1>7. Unique(s) => Unique(u)
  BY <1>3, <1>4 DEF Unique
<1>8. ASSUME Unique(s), v \in Idle(u) PROVE FALSE
  <2>1. PICK i \in DOMAIN s : u[i].id = v /\ u[i].status = "idle"
    BY <1>4, <1>8 DEF Idle, IdleAt
  <2>2. IsFirst(s, v, i)
    BY <2>1, <1>1, <1>3, <1>8 DEF IsFirst, Unique
  <2> QED BY <2>1, <2>2, <1>3
<1> QED BY <1>4, <1>5, <1>6, <1>7, <1>8 DEF u

\* push_back of a new idle volume.
LEMMA AppendedList ==
  ASSUME NEW s \in Seq(Record), NEW v \in Volume
  PROVE  /\ Append(s, IdleRecord(v)) \in Seq(Record)
         /\ Ids(Append(s, IdleRecord(v))) = Ids(s) \cup {v}
         /\ Idle(Append(s, IdleRecord(v))) = Idle(s) \cup {v}
         /\ Unique(s) /\ v \notin Ids(s) => Unique(Append(s, IdleRecord(v)))
<1> DEFINE r == IdleRecord(v)
           a == Append(s, r)
<1>1. r \in Record /\ r.id = v /\ r.status = "idle"
  BY DEF IdleRecord, Record, Status, Instance, Here
<1> HIDE DEF r
<1>2. /\ a \in Seq(Record) /\ DOMAIN s = 1 .. Len(s) /\ Len(s) \in Nat
      /\ DOMAIN a = 1 .. Len(s) + 1 /\ a[Len(s) + 1] = r
      /\ \A i \in DOMAIN s : a[i] = s[i]
  BY <1>1
<1> HIDE DEF a
<1>3. DOMAIN a = DOMAIN s \cup {Len(s) + 1}
  BY <1>2
<1>4. Ids(a) = Ids(s) \cup {v}
  BY <1>1, <1>2, <1>3 DEF Ids
<1>5. Idle(a) = Idle(s) \cup {v}
  BY <1>1, <1>2, <1>3 DEF Idle, IdleAt
<1>6. Unique(s) /\ v \notin Ids(s) => Unique(a)
  BY <1>1, <1>2, <1>3 DEF Unique, Ids
<1> QED BY <1>2, <1>4, <1>5, <1>6 DEF a, r

\* Record by record: what Erased keeps is in s, what Updated changes has the new
\* status, and what is appended is the new idle record.
LEMMA ErasedRecords ==
  ASSUME NEW s \in Seq(Record), NEW v, NEW j \in DOMAIN Erased(s, v)
  PROVE  \E k \in DOMAIN s : Erased(s, v)[j] = s[k]
<1>1. CASE v \notin Ids(s)
  BY <1>1 DEF Erased
<1>2. CASE v \in Ids(s)
  <2> DEFINE i == CHOOSE k \in DOMAIN s : IsFirst(s, v, k)
             e == [l \in 1 .. Len(s) - 1 |-> IF l < i THEN s[l] ELSE s[l + 1]]
  <2>1. i \in DOMAIN s
    BY <1>2, FirstExists
  <2>2. DOMAIN s = 1 .. Len(s) /\ Len(s) \in Nat /\ i \in 1 .. Len(s)
    BY <2>1
  <2>3. Erased(s, v) = e
    BY <1>2 DEF Erased
  <2> HIDE DEF i
  <2>4. \A l \in DOMAIN e : \E k \in DOMAIN s : e[l] = s[k]
    BY <2>2
  <2> HIDE DEF e
  <2> QED BY <2>3, <2>4
<1> QED BY <1>1, <1>2

LEMMA UpdatedRecords ==
  ASSUME NEW s \in Seq(Record), NEW v, NEW st, NEW at, NEW i \in DOMAIN Updated(s, v, st, at)
  PROVE  /\ i \in DOMAIN s
         /\ Updated(s, v, st, at)[i] = s[i] \/ Updated(s, v, st, at)[i].status = st
<1> DEFINE x == IF at = NoPlace THEN s[i].attachedTo ELSE at
<1>1. i \in DOMAIN s
  BY DEF Updated
<1>2. Updated(s, v, st, at)[i] =
        IF IsFirst(s, v, i) THEN [id |-> v, status |-> st, attachedTo |-> x] ELSE s[i]
  BY <1>1 DEF Updated
<1> HIDE DEF x
<1> QED BY <1>1, <1>2

LEMMA AppendedRecords ==
  ASSUME NEW s \in Seq(Record), NEW v \in Volume, NEW i \in DOMAIN Append(s, IdleRecord(v))
  PROVE  \/ i \in DOMAIN s /\ Append(s, IdleRecord(v))[i] = s[i]
         \/ Append(s, IdleRecord(v))[i] = IdleRecord(v)
<1> DEFINE r == IdleRecord(v)
<1>1. r \in Record
  BY DEF IdleRecord, Record, Status, Instance, Here
<1> HIDE DEF r
<1>2. \/ i \in DOMAIN s /\ Append(s, r)[i] = s[i]
      \/ Append(s, r)[i] = r
  BY <1>1 DEF r
<1> QED BY <1>2 DEF r

-----------------------------------------------------------------------------
(* Type correctness.                                                       *)

\* What the threads store is a list of records.
LEMMA StoredTypes ==
  ASSUME TypeOK, NEW t \in Thread
  PROVE  /\ Erased(m_volumes, vid[t]) \in Seq(Record)
         /\ Updated(m_volumes, vid[t], "inprogress", NoPlace) \in Seq(Record)
         /\ Updated(m_volumes, vid[t], "failedToDetach", NoPlace) \in Seq(Record)
         /\ \A c \in Client : Updated(m_volumes, vid[t], "used", c) \in Seq(Record)
         /\ \A v \in Volume : Append(m_volumes, IdleRecord(v)) \in Seq(Record)
  BY ErasedList, UpdatedList, AppendedList DEF TypeOK, Status

\* The steps of write_to_file.
LEMMA WriteStepType ==
  ASSUME TypeInv, NEW t \in Thread, WriteStep(t)
  PROVE  TypeInv'
<1> USE DEF TypeInv, TypeOK
<1>1. CASE OpenFile(t)
  BY <1>1, StoredTypes, ThreadAssumption
  DEF OpenFile, Thread, Worker, Taker, Main, Moves, ClientMoves, Remounts, Stores, Detaches, Deletes, EbsState, Instance, Here, Control, ClientControl,
     listVars, fileVars, ec2Vars, clientVars, localVars
<1>2. CASE OpenFails(t)
  BY <1>2, StoredTypes, ThreadAssumption
  DEF OpenFails, Thread, Worker, Taker, Main, Moves, ClientMoves, Remounts, Stores, Detaches, Deletes, EbsState, Instance, Here, Control, ClientControl,
     listVars, fileVars, ec2Vars, clientVars, localVars
<1>3. CASE CopyRecords(t)
  BY <1>3, StoredTypes, ThreadAssumption
  DEF CopyRecords, Thread, Worker, Taker, Main, Moves, ClientMoves, Remounts, Stores, Detaches, Deletes, EbsState, Instance, Here, Control, ClientControl,
     listVars, fileVars, ec2Vars, clientVars, localVars
<1>4. CASE CloseFile(t)
  <2>1. <<>> \in Seq(Record) /\ FALSE \in BOOLEAN
    OBVIOUS
  <2>2. volumeFile' \in Seq(Record) /\ buf' \in [Thread -> Seq(Record)] /\ writeFailed' \in BOOLEAN
    BY <1>4, <2>1 DEF CloseFile
  <2> QED BY <1>4, <2>2 DEF CloseFile, ec2Vars, clientVars, localVars
<1> QED BY <1>1, <1>2, <1>3, <1>4 DEF WriteStep

\* The steps of Volumes::release.
LEMMA ReleaseType ==
  ASSUME TypeInv, NEW t \in Taker, Release(t)
  PROVE  TypeInv'
<1> USE DEF TypeInv, TypeOK
<1>1. CASE GetIdleVolume(t)
  <2>1. DOMAIN m_volumes \subseteq Int
    OBVIOUS
  <2> QED BY <2>1, <1>1, ThreadAssumption
      DEF GetIdleVolume, IdleAt, Moves, Thread, Worker, Taker, Control, listVars, fileVars, ec2Vars, clientVars
<1>2. CASE NoIdleVolume(t)
  BY <1>2, StoredTypes, ThreadAssumption
  DEF NoIdleVolume, Thread, Worker, Taker, Main, Moves, ClientMoves, Remounts, Stores, Detaches, Deletes, EbsState, Instance, Here, Control, ClientControl,
     listVars, fileVars, ec2Vars, clientVars, localVars
<1>3. CASE ReadRecord(t)
  <2>1. \A i \in DOMAIN m_volumes : m_volumes[i].id \in Volume
    <3>1. \A i \in DOMAIN m_volumes : m_volumes[i] \in Record
      OBVIOUS
    <3> QED BY <3>1 DEF Record
  <2> QED BY <2>1, <1>3, ThreadAssumption
      DEF ReadRecord, Moves, Thread, Worker, Taker, Control, listVars, fileVars, ec2Vars, clientVars
<1>4. CASE MarkTaken(t)
  <2>1. m_volumes' \in Seq(Record) /\ wr' \in [Thread -> {"no", "due", "open", "copied"}]
    <3>1. Updated(m_volumes, vid[t], "inprogress", NoPlace) \in Seq(Record) /\ t \in Thread
      BY StoredTypes DEF Thread, Worker, Taker
    <3> QED BY <3>1, <1>4 DEF MarkTaken, UpdatesStatus, Stores, listVars
  <2> QED BY <2>1, <1>4, ThreadAssumption
      DEF MarkTaken, Moves, Thread, Worker, Taker, Control, fileVars, ec2Vars, clientVars, localVars
<1>5. CASE Umount(t)
  BY <1>5, StoredTypes, ThreadAssumption
  DEF Umount, Thread, Worker, Taker, Main, Moves, ClientMoves, Remounts, Stores, Detaches, Deletes, EbsState, Instance, Here, Control, ClientControl,
     listVars, fileVars, ec2Vars, clientVars, localVars
<1>6. CASE DetachIssue(t)
  BY <1>6, StoredTypes, ThreadAssumption
  DEF DetachIssue, Thread, Worker, Taker, Main, Moves, ClientMoves, Remounts, Stores, Detaches, Deletes, EbsState, Instance, Here, Control, ClientControl,
     listVars, fileVars, ec2Vars, clientVars, localVars
<1>7. CASE DetachRefused(t)
  BY <1>7, StoredTypes, ThreadAssumption
  DEF DetachRefused, Thread, Worker, Taker, Main, Moves, ClientMoves, Remounts, Stores, Detaches, Deletes, EbsState, Instance, Here, Control, ClientControl,
     listVars, fileVars, ec2Vars, clientVars, localVars
<1>8. CASE DetachDone(t)
  BY <1>8, StoredTypes, ThreadAssumption
  DEF DetachDone, Thread, Worker, Taker, Main, Moves, ClientMoves, Remounts, Stores, Detaches, Deletes, EbsState, Instance, Here, Control, ClientControl,
     listVars, fileVars, ec2Vars, clientVars, localVars
<1>9. CASE DetachTimeout(t)
  BY <1>9, StoredTypes, ThreadAssumption
  DEF DetachTimeout, Thread, Worker, Taker, Main, Moves, ClientMoves, Remounts, Stores, Detaches, Deletes, EbsState, Instance, Here, Control, ClientControl,
     listVars, fileVars, ec2Vars, clientVars, localVars
<1>10. CASE MarkUndetached(t)
  <2>1. m_volumes' \in Seq(Record) /\ wr' \in [Thread -> {"no", "due", "open", "copied"}]
    <3>1. Updated(m_volumes, vid[t], "failedToDetach", NoPlace) \in Seq(Record) /\ t \in Thread
      BY StoredTypes DEF Thread, Worker, Taker
    <3> QED BY <3>1, <1>10 DEF MarkUndetached, UpdatesStatus, Stores, listVars
  <2> QED BY <2>1, <1>10, ThreadAssumption
      DEF MarkUndetached, Moves, Thread, Worker, Taker, Control, fileVars, ec2Vars, clientVars, localVars
<1> QED BY <1>1, <1>2, <1>3, <1>4, <1>5, <1>6, <1>7, <1>8, <1>9, <1>10 DEF Release

\* The steps of clientDiskAquire_handler.
LEMMA AquireType ==
  ASSUME TypeInv, NEW t \in Client, Aquire(t)
  PROVE  TypeInv'
<1> USE DEF TypeInv, TypeOK
<1>1. CASE SendVolume(t)
  BY <1>1, StoredTypes, ThreadAssumption
  DEF SendVolume, Thread, Worker, Taker, Main, Moves, ClientMoves, Remounts, Stores, Detaches, Deletes, EbsState, Instance, Here, Control, ClientControl,
     listVars, fileVars, ec2Vars, clientVars, localVars
<1>2. CASE AckOK(t)
  <2>1. m_volumes' \in Seq(Record) /\ wr' \in [Thread -> {"no", "due", "open", "copied"}]
    <3>1. Updated(m_volumes, vid[t], "used", t) \in Seq(Record) /\ t \in Thread
      BY StoredTypes DEF Thread, Worker, Taker
    <3> QED BY <3>1, <1>2 DEF AckOK, UpdatesStatus, Stores, listVars
  <2> QED BY <2>1, <1>2, ThreadAssumption
      DEF AckOK, Moves, Thread, Worker, Taker, Control, fileVars, ec2Vars, clientVars, localVars
<1>3. CASE AckFailed(t)
  BY <1>3, StoredTypes, ThreadAssumption
  DEF AckFailed, Thread, Worker, Taker, Main, Moves, ClientMoves, Remounts, Stores, Detaches, Deletes, EbsState, Instance, Here, Control, ClientControl,
     listVars, fileVars, ec2Vars, clientVars, localVars
<1>4. CASE ConnectionLost(t)
  BY <1>4, StoredTypes, ThreadAssumption
  DEF ConnectionLost, Thread, Worker, Taker, Main, Moves, ClientMoves, Remounts, Stores, Detaches, Deletes, EbsState, Instance, Here, Control, ClientControl,
     listVars, fileVars, ec2Vars, clientVars, localVars
<1> QED BY <1>1, <1>2, <1>3, <1>4 DEF Aquire

\* The steps of Volumes::acquire.
LEMMA CreateType ==
  ASSUME TypeInv, NEW t \in Creator, Create(t)
  PROVE  TypeInv'
<1> USE DEF TypeInv, TypeOK
<1>1. CASE LoadCounter(t)
  BY <1>1, StoredTypes, ThreadAssumption
  DEF LoadCounter, Thread, Worker, Taker, Main, Moves, ClientMoves, Remounts, Stores, Detaches, Deletes, EbsState, Instance, Here, Control, ClientControl,
     listVars, fileVars, ec2Vars, clientVars, localVars
<1>2. CASE StoreCounter(t)
  <2>1. t \in Thread /\ reg[t] \in Int
    BY DEF Thread, Worker
  <2>2. inProgressVolumes' \in Int
    <3>1. inProgressVolumes' = reg[t] + 1 \/ inProgressVolumes' = reg[t] - 1
      BY <1>2 DEF StoreCounter
    <3> QED BY <2>1, <3>1
  <2>3. pc' = [pc EXCEPT ![t] = "create"] \/ pc' = [pc EXCEPT ![t] = "done"]
    BY <1>2 DEF StoreCounter, Moves
  <2>4. UNCHANGED <<listVars, fileVars, ec2Vars, clientVars, vid, crashes>>
    BY <1>2, Zenon DEF StoreCounter
  <2>6. reg' \in [Thread -> Int]
    <3>1. reg' = [reg EXCEPT ![t] = 0]
      BY <1>2, Zenon DEF StoreCounter
    <3>2. reg \in [Thread -> Int] /\ 0 \in Int
      OBVIOUS
    <3> QED BY <3>1, <3>2, Zenon
  <2>5. pc' \in [Thread -> Control] /\ \A u \in Creator : pc'[u] \in {"mount", "add"} => vid'[u] # NoVolume
    BY <2>1, <2>3, <2>4 DEF Control, Thread, Worker
  <2> QED BY <2>2, <2>4, <2>5, <2>6 DEF listVars, fileVars, ec2Vars, clientVars
<1>3. CASE CreateVolume(t)
  BY <1>3, StoredTypes, ThreadAssumption
  DEF CreateVolume, Thread, Worker, Taker, Main, Moves, ClientMoves, Remounts, Stores, Detaches, Deletes, EbsState, Instance, Here, Control, ClientControl,
     listVars, fileVars, ec2Vars, clientVars, localVars
<1>4. CASE CreateFails(t)
  BY <1>4, StoredTypes, ThreadAssumption
  DEF CreateFails, Thread, Worker, Taker, Main, Moves, ClientMoves, Remounts, Stores, Detaches, Deletes, EbsState, Instance, Here, Control, ClientControl,
     listVars, fileVars, ec2Vars, clientVars, localVars
<1>5. CASE CreateMisread(t)
  BY <1>5, StoredTypes, ThreadAssumption
  DEF CreateMisread, Thread, Worker, Taker, Main, Moves, ClientMoves, Remounts, Stores, Detaches, Deletes, EbsState, Instance, Here, Control, ClientControl,
     listVars, fileVars, ec2Vars, clientVars, localVars
<1>6. CASE AttachDone(t)
  BY <1>6, StoredTypes, ThreadAssumption
  DEF AttachDone, Thread, Worker, Taker, Main, Moves, ClientMoves, Remounts, Stores, Detaches, Deletes, EbsState, Instance, Here, Control, ClientControl,
     listVars, fileVars, ec2Vars, clientVars, localVars
<1>7. CASE AttachFails(t)
  BY <1>7, StoredTypes, ThreadAssumption
  DEF AttachFails, Thread, Worker, Taker, Main, Moves, ClientMoves, Remounts, Stores, Detaches, Deletes, EbsState, Instance, Here, Control, ClientControl,
     listVars, fileVars, ec2Vars, clientVars, localVars
<1>8. CASE DeleteUnattached(t)
  BY <1>8, StoredTypes, ThreadAssumption
  DEF DeleteUnattached, Thread, Worker, Taker, Main, Moves, ClientMoves, Remounts, Stores, Detaches, Deletes, EbsState, Instance, Here, Control, ClientControl,
     listVars, fileVars, ec2Vars, clientVars, localVars
<1>9. CASE MountDone(t)
  BY <1>9, StoredTypes, ThreadAssumption
  DEF MountDone, Thread, Worker, Taker, Main, Moves, ClientMoves, Remounts, Stores, Detaches, Deletes, EbsState, Instance, Here, Control, ClientControl,
     listVars, fileVars, ec2Vars, clientVars, localVars
<1>10. CASE MountGivenUp(t)
  BY <1>10, StoredTypes, ThreadAssumption
  DEF MountGivenUp, Thread, Worker, Taker, Main, Moves, ClientMoves, Remounts, Stores, Detaches, Deletes, EbsState, Instance, Here, Control, ClientControl,
     listVars, fileVars, ec2Vars, clientVars, localVars
<1>11. CASE AddVolume(t)
  BY <1>11, StoredTypes, ThreadAssumption
  DEF AddVolume, Thread, Worker, Taker, Main, Moves, ClientMoves, Remounts, Stores, Detaches, Deletes, EbsState, Instance, Here, Control, ClientControl,
     listVars, fileVars, ec2Vars, clientVars, localVars
<1> QED BY <1>1, <1>2, <1>3, <1>4, <1>5, <1>6, <1>7, <1>8, <1>9, <1>10, <1>11 DEF Create

\* The steps of a client.
LEMMA ClientStepType ==
  ASSUME TypeInv, NEW c \in Client, ClientStep(c)
  PROVE  TypeInv'
<1> USE DEF TypeInv, TypeOK
<1>1. CASE ClientAsks(c)
  BY <1>1, StoredTypes, ThreadAssumption
  DEF ClientAsks, Thread, Worker, Taker, Main, Moves, ClientMoves, Remounts, Stores, Detaches, Deletes, EbsState, Instance, Here, Control, ClientControl,
     listVars, fileVars, ec2Vars, clientVars, localVars
<1>2. CASE ClientTurnedAway(c)
  BY <1>2, StoredTypes, ThreadAssumption
  DEF ClientTurnedAway, Thread, Worker, Taker, Main, Moves, ClientMoves, Remounts, Stores, Detaches, Deletes, EbsState, Instance, Here, Control, ClientControl,
     listVars, fileVars, ec2Vars, clientVars, localVars
<1>3. CASE ClientReceives(c)
  BY <1>3, StoredTypes, ThreadAssumption
  DEF ClientReceives, Thread, Worker, Taker, Main, Moves, ClientMoves, Remounts, Stores, Detaches, Deletes, EbsState, Instance, Here, Control, ClientControl,
     listVars, fileVars, ec2Vars, clientVars, localVars
<1>4. CASE ClientAttaches(c)
  BY <1>4, StoredTypes, ThreadAssumption
  DEF ClientAttaches, Thread, Worker, Taker, Main, Moves, ClientMoves, Remounts, Stores, Detaches, Deletes, EbsState, Instance, Here, Control, ClientControl,
     listVars, fileVars, ec2Vars, clientVars, localVars
<1>5. CASE ClientAttachFails(c)
  <2>1. CASE UNCHANGED ebs
    BY <1>5, <2>1, ThreadAssumption
    DEF ClientAttachFails, Thread, Worker, Taker, Main, Moves, ClientMoves, Remounts, Stores, Detaches, Deletes, EbsState, Instance, Here, Control, ClientControl,
     listVars, fileVars, ec2Vars, clientVars, localVars
  <2>2. CASE ebs' = [ebs EXCEPT ![reply[c]] = c]
    BY <1>5, <2>2, ThreadAssumption
    DEF ClientAttachFails, Thread, Worker, Taker, Main, Moves, ClientMoves, Remounts, Stores, Detaches, Deletes, EbsState, Instance, Here, Control, ClientControl,
     listVars, fileVars, ec2Vars, clientVars, localVars
  <2> QED BY <1>5, <2>1, <2>2 DEF ClientAttachFails, Moves, ClientMoves
<1>6. CASE ClientMounts(c)
  BY <1>6, StoredTypes, ThreadAssumption
  DEF ClientMounts, Thread, Worker, Taker, Main, Moves, ClientMoves, Remounts, Stores, Detaches, Deletes, EbsState, Instance, Here, Control, ClientControl,
     listVars, fileVars, ec2Vars, clientVars, localVars
<1>7. CASE ClientMountFails(c)
  <2>1. CASE ClientMoves(c, "mount", "failed") /\ UNCHANGED ebs
    BY <1>7, <2>1, StoredTypes, ThreadAssumption
    DEF ClientMountFails, ClientMoves, ClientControl, listVars, fileVars, localVars
  <2>2. CASE ClientMoves(c, "mount", "discard") /\ Detaches(reply[c])
    BY <1>7, <2>2, ThreadAssumption
    DEF ClientMountFails, Thread, Worker, Taker, Main, Moves, ClientMoves, Remounts, Stores, Detaches, Deletes, EbsState, Instance, Here, Control, ClientControl,
     listVars, fileVars, ec2Vars, clientVars, localVars
  <2> QED BY <1>7, <2>1, <2>2 DEF ClientMountFails
<1>8. CASE ClientDiscards(c)
  BY <1>8, StoredTypes, ThreadAssumption
  DEF ClientDiscards, Thread, Worker, Taker, Main, Moves, ClientMoves, Remounts, Stores, Detaches, Deletes, EbsState, Instance, Here, Control, ClientControl,
     listVars, fileVars, ec2Vars, clientVars, localVars
<1>9. CASE ClientAnswers(c)
  <2>1. \/ /\ cli' = [cli EXCEPT ![c] = "using"] /\ ack' = [ack EXCEPT ![c] = "OK"]
        \/ /\ cli' = [cli EXCEPT ![c] = "over"] /\ ack' = [ack EXCEPT ![c] = "FAILED"]
    BY <1>9 DEF ClientAnswers, ClientMoves
  <2>2. UNCHANGED <<listVars, fileVars, ec2Vars, reply, localVars, inProgressVolumes, pc, crashes>>
    BY <1>9 DEF ClientAnswers
  <2> QED BY <2>1, <2>2
      DEF ClientControl, listVars, fileVars, ec2Vars, localVars
<1>10. CASE ClientDies(c)
  BY <1>10, StoredTypes, ThreadAssumption
  DEF ClientDies, Thread, Worker, Taker, Main, Moves, ClientMoves, Remounts, Stores, Detaches, Deletes, EbsState, Instance, Here, Control, ClientControl,
     listVars, fileVars, ec2Vars, clientVars, localVars
<1>11. CASE ClientDetaches(c)
  <2>1. mountedAt' \in [Volume -> Instance \cup {"nowhere"}]
    BY <1>11 DEF ClientDetaches
  <2>2. ebs' \in [Volume -> EbsState]
    <3>1. ebs' = ebs \/ ebs' = [ebs EXCEPT ![reply[c]] = "detaching"]
      BY <1>11 DEF ClientDetaches, Detaches
    <3>2. "detaching" \in EbsState
      BY DEF EbsState
    <3> QED BY <3>1, <3>2
  <2>3. \E q \in {"leaving", "over"} : cli' = [cli EXCEPT ![c] = q]
    BY <1>11 DEF ClientDetaches, ClientMoves
  <2>4. cli' \in [Client -> ClientControl]
    BY <2>3 DEF ClientControl
  <2> QED BY <1>11, <2>1, <2>2, <2>4 DEF ClientDetaches, listVars, fileVars, localVars
<1>12. CASE ClientDeletes(c)
  BY <1>12, StoredTypes, ThreadAssumption
  DEF ClientDeletes, Thread, Worker, Taker, Main, Moves, ClientMoves, Remounts, Stores, Detaches, Deletes, EbsState, Instance, Here, Control, ClientControl,
     listVars, fileVars, ec2Vars, clientVars, localVars
<1>13. CASE ClientReleaseFails(c)
  BY <1>13, StoredTypes, ThreadAssumption
  DEF ClientReleaseFails, Thread, Worker, Taker, Main, Moves, ClientMoves, Remounts, Stores, Detaches, Deletes, EbsState, Instance, Here, Control, ClientControl,
     listVars, fileVars, ec2Vars, clientVars, localVars
<1>14. CASE NotifyLost(c)
  BY <1>14, StoredTypes, ThreadAssumption
  DEF NotifyLost, Thread, Worker, Taker, Main, Moves, ClientMoves, Remounts, Stores, Detaches, Deletes, EbsState, Instance, Here, Control, ClientControl,
     listVars, fileVars, ec2Vars, clientVars, localVars
<1>15. CASE \E t \in Releaser : ClientNotifies(c, t)
  <2>1. PICK t \in Releaser : ClientNotifies(c, t)
    BY <1>15
  <2> QED BY <2>1, ThreadAssumption
      DEF ClientNotifies, ClientMoves, Thread, Worker, Control, ClientControl,
          listVars, fileVars, ec2Vars
<1> QED BY <1>1, <1>2, <1>3, <1>4, <1>5, <1>6, <1>7, <1>8, <1>9, <1>10, <1>11, <1>12, <1>13, <1>14, <1>15 DEF ClientStep

\* The steps of load and remount.
LEMMA StartUpType ==
  ASSUME TypeInv, StartUp
  PROVE  TypeInv'
<1> USE DEF TypeInv, TypeOK
<1>1. CASE LoadFile
  <2>1. pc' \in [Thread -> Control] /\ \A t \in Creator : pc'[t] = pc[t]
    BY <1>1, ThreadAssumption DEF LoadFile, Thread, Worker, Control
  <2>2. reg' \in [Thread -> Int]
    BY <1>1 DEF LoadFile, Thread
  <2> QED BY <2>1, <2>2, <1>1 DEF LoadFile, ec2Vars, clientVars
<1>2. CASE RemountEnds
  BY <1>2, StoredTypes, ThreadAssumption
  DEF RemountEnds, Thread, Worker, Taker, Main, Moves, ClientMoves, Remounts, Stores, Detaches, Deletes, EbsState, Instance, Here, Control, ClientControl,
     listVars, fileVars, ec2Vars, clientVars, localVars
<1>3. CASE \E i \in 1 .. Cardinality(Volume) : RemountKeeps(i)
  BY <1>3, StoredTypes, ThreadAssumption
  DEF RemountKeeps, Thread, Worker, Taker, Main, Moves, ClientMoves, Remounts, Stores, Detaches, Deletes, EbsState, Instance, Here, Control, ClientControl,
     listVars, fileVars, ec2Vars, clientVars, localVars
<1>4. CASE \E i \in 1 .. Cardinality(Volume) : RemountMounts(i)
  <2>1. PICK i : RemountMounts(i)
    BY <1>4
  <2>2. i \in Int /\ pc' = pc
    BY <2>1 DEF RemountMounts, Remounts, Moves, Thread
  <2>3. PICK v : mountedAt' = [mountedAt EXCEPT ![v] = Here]
    BY <2>1 DEF RemountMounts
  <2>4. mountedAt' \in [Volume -> Instance \cup {"nowhere"}]
    BY <2>3 DEF Instance
  <2>5. reg' \in [Thread -> Int]
    <3>1. reg' = [reg EXCEPT ![Main] = i + 1]
      BY <2>1 DEF RemountMounts, Remounts
    <3>2. i + 1 \in Int
      BY <2>2
    <3> QED BY <3>1, <3>2
  <2> QED BY <2>1, <2>2, <2>4, <2>5
      DEF RemountMounts, listVars, fileVars, clientVars
<1>5. CASE \E i \in 1 .. Cardinality(Volume) : RemountDrops(i)
  <2>1. PICK i : RemountDrops(i)
    BY <1>5
  <2>2. i \in Int /\ pc' = pc
    BY <2>1 DEF RemountDrops, Remounts, Moves, Thread
  <2>3. Erased(m_volumes, m_volumes[i].id) \in Seq(Record)
    BY ErasedList
  <2> QED BY <2>1, <2>2, <2>3
      DEF RemountDrops, Remounts, Stores, Detaches, Thread, EbsState, fileVars, clientVars
<1> QED BY <1>1, <1>2, <1>3, <1>4, <1>5 DEF StartUp

\* What main, the removers and EC2 do, and an abrupt stop.
LEMMA OtherType ==
  ASSUME TypeInv,
         \/ \E t \in Taker : DeleteTaken(t)
         \/ \E t \in Creator : SpawnCreator(t)
         \/ \E t \in Remover : SpawnRemover(t)
         \/ \E t \in Releaser : CheckReleased(t)
         \/ \E t \in Remover \cup Releaser : DropRecord(t)
         \/ \E v \in Volume : EbsDetached(v)
         \/ Crash
  PROVE  TypeInv'
<1> USE DEF TypeInv, TypeOK
<1>1. ASSUME NEW t \in Taker, DeleteTaken(t) PROVE TypeInv'
  BY <1>1, StoredTypes, ThreadAssumption
  DEF DeleteTaken, Thread, Worker, Taker, Main, Moves, Stores, Deletes, EbsState, Instance, Here, Control,
     listVars, fileVars, ec2Vars, clientVars, localVars
<1>2. ASSUME NEW t \in Creator, SpawnCreator(t) PROVE TypeInv'
  BY <1>2, StoredTypes, ThreadAssumption
  DEF SpawnCreator, Thread, Worker, Taker, Main, Moves, Stores, Deletes, EbsState, Instance, Here, Control,
     listVars, fileVars, ec2Vars, clientVars, localVars
<1>3. ASSUME NEW t \in Remover, SpawnRemover(t) PROVE TypeInv'
  BY <1>3, StoredTypes, ThreadAssumption
  DEF SpawnRemover, Thread, Worker, Taker, Main, Moves, Stores, Deletes, EbsState, Instance, Here, Control,
     listVars, fileVars, ec2Vars, clientVars, localVars
<1>4. ASSUME NEW t \in Releaser, CheckReleased(t) PROVE TypeInv'
  BY <1>4, StoredTypes, ThreadAssumption
  DEF CheckReleased, Thread, Worker, Taker, Main, Moves, Stores, Deletes, EbsState, Instance, Here, Control,
     listVars, fileVars, ec2Vars, clientVars, localVars
<1>5. ASSUME NEW t \in Remover \cup Releaser, DropRecord(t) PROVE TypeInv'
  BY <1>5, StoredTypes, ThreadAssumption
  DEF DropRecord, Thread, Worker, Taker, Main, Moves, Stores, Deletes, EbsState, Instance, Here, Control,
     listVars, fileVars, ec2Vars, clientVars, localVars
<1>6. ASSUME NEW v \in Volume, EbsDetached(v) PROVE TypeInv'
  BY <1>6, StoredTypes, ThreadAssumption
  DEF EbsDetached, Thread, Worker, Taker, Main, Moves, Stores, Deletes, EbsState, Instance, Here, Control,
     listVars, fileVars, ec2Vars, clientVars, localVars
<1>7. CASE Crash
  <2>1. pc' \in [Thread -> Control] /\ \A t \in Creator : pc'[t] \notin {"mount", "add"}
    BY <1>7, ThreadAssumption DEF Crash, Thread, Worker, Main, Control
  <2>2. crashes' \in 0 .. MaxCrashes
    <3>1. crashes < MaxCrashes /\ crashes' = crashes + 1
      BY <1>7 DEF Crash
    <3> QED BY <3>1, BoundAssumption
  <2>3. /\ m_volumes' \in Seq(Record) /\ buf' \in [Thread -> Seq(Record)]
        /\ wr' \in [Thread -> {"no", "due", "open", "copied"}]
    BY <1>7 DEF Crash
  <2>4. vid' \in [Thread -> Volume \cup {NoVolume}]
    BY <1>7 DEF Crash
  <2>5. reg' \in [Thread -> Int] /\ inProgressVolumes' \in Int
    BY <1>7 DEF Crash
  <2>6. mountedAt' \in [Volume -> Instance \cup {"nowhere"}]
    BY <1>7 DEF Crash
  <2>7. UNCHANGED <<volumeFile, writeFailed, ebs, clientVars>>
    BY <1>7 DEF Crash
  <2> QED BY <2>1, <2>2, <2>3, <2>4, <2>5, <2>6, <2>7 DEF clientVars
<1> QED BY <1>1, <1>2, <1>3, <1>4, <1>5, <1>6, <1>7

\* The start: the volumes of Loaded are listed, idle, attached and mounted here.
LEMMA InitType == Init => TypeInv
<1> SUFFICES ASSUME Init PROVE TypeInv
  OBVIOUS
<1>1. m_volumes \in Seq(Record) /\ volumeFile = m_volumes
  <2>1. \A v \in Volume : IdleRecord(v) \in Record
    BY DEF IdleRecord, Record, Status, Instance, Here
  <2>2. DOMAIN Loaded = 1 .. Len(Loaded) /\ Len(Loaded) \in Nat
        /\ \A i \in 1 .. Len(Loaded) : Loaded[i] \in Volume
    BY LoadedAssumption
  <2>3. [i \in 1 .. Len(Loaded) |-> IdleRecord(Loaded[i])] \in Seq(Record)
    BY <2>1, <2>2
  <2> QED BY <2>2, <2>3 DEF Init
<1>2. pc \in [Thread -> Control] /\ \A t \in Creator : pc[t] = "off"
  BY ThreadAssumption DEF Init, Thread, Worker, Main, Control
<1>3. /\ vid \in [Thread -> Volume \cup {NoVolume}] /\ reg \in [Thread -> Int]
      /\ wr \in [Thread -> {"no", "due", "open", "copied"}] /\ buf \in [Thread -> Seq(Record)]
  BY DEF Init
<1>4. ebs \in [Volume -> EbsState] /\ mountedAt \in [Volume -> Instance \cup {"nowhere"}]
  BY DEF Init, EbsState, Instance, Here
<1>5. /\ cli \in [Client -> ClientControl] /\ reply \in [Client -> Volume \cup {NoVolume}]
      /\ ack \in [Client -> {"none", "OK", "FAILED", "closed"}]
  BY DEF Init, ClientControl
<1>6. inProgressVolumes \in Int /\ writeFailed \in BOOLEAN /\ crashes \in 0 .. MaxCrashes
  <2>1. inProgressVolumes = 0 /\ crashes = 0
    BY DEF Init
  <2>2. writeFailed \in BOOLEAN
    BY DEF Init
  <2>3. MaxCrashes \in Nat
    BY BoundAssumption
  <2>4. crashes \in 0 .. MaxCrashes
    BY <2>1, <2>3
  <2> QED BY <2>1, <2>2, <2>4
<1> QED BY <1>1, <1>2, <1>3, <1>4, <1>5, <1>6 DEF TypeInv, TypeOK

\* TypeInv is inductive.
LEMMA NextType == TypeInv /\ [Next]_vars => TypeInv'
<1>1. ASSUME TypeInv, UNCHANGED vars PROVE TypeInv'
  BY <1>1 DEF TypeInv, TypeOK, vars, listVars, fileVars, ec2Vars, clientVars, localVars
<1>2. ASSUME TypeInv, Next PROVE TypeInv'
  BY <1>2, WriteStepType, ReleaseType, AquireType, CreateType, ClientStepType,
     StartUpType, OtherType DEF Next
<1> QED BY <1>1, <1>2

\* Every variable keeps its type, whatever the bounds, failures and restarts.
THEOREM TypeCorrect == Spec => []TypeOK
<1>1. TypeInv => TypeOK
  BY DEF TypeInv
<1> QED BY <1>1, InitType, NextType, PTL DEF Spec

-----------------------------------------------------------------------------
(* The file follows the list, with no restriction on the constants: the    *)
(* volumes file may be impossible to open, the daemon may stop at any      *)
(* moment and the machine may restart with it.                             *)

\* FileInv, and why no two threads write at once.
PersistInv == MutexInv /\ DownInv /\ FileInv

\* A thread other than one that stops or loads moves on, or none moves.
Advances ==
  \/ pc' = pc
  \/ pc[Main] # "down" /\ \E t \in Thread, q \in Control \ {"down"} : pc' = [pc EXCEPT ![t] = q]

\* The list is left alone, or a thread must write it.
Marks ==
  \/ UNCHANGED listVars
  \/ pc[Main] # "down" /\ \E t \in Thread : wr[t] = "no" /\ wr' = [wr EXCEPT ![t] = "due"]

-----------------------------------------------------------------------------
\* Every step but those of write_to_file, of the load and of a stop.
LEMMA AdvancePersists ==
  ASSUME TypeInv, PersistInv, UNCHANGED fileVars, Advances, Marks,
         \A t \in Worker : pc'[t] \in {"off", "done"} \/ pc[t] = pc'[t] \/ pc[Main] # "down"
  PROVE  PersistInv'
<1> USE DEF PersistInv
<1>1. Main \in Thread
  BY DEF Thread
<1>2. pc'[Main] = "down" <=> pc[Main] = "down"
  BY <1>1 DEF Advances, TypeInv, TypeOK
<1>3. UNCHANGED <<volumeFile, buf, writeFailed>>
  BY DEF fileVars
<1>4. CASE UNCHANGED listVars
  BY <1>2, <1>3, <1>4 DEF listVars, MutexInv, DownInv, FileInv
<1>5. ASSUME pc[Main] # "down", NEW t \in Thread, wr[t] = "no", wr' = [wr EXCEPT ![t] = "due"]
      PROVE  PersistInv'
  <2>1. wr'[t] = "due" /\ \A u \in Thread \ {t} : wr'[u] = wr[u]
    BY <1>5 DEF TypeInv, TypeOK
  <2>2. MutexInv'
    BY <1>3, <1>5, <2>1 DEF MutexInv
  <2>3. DownInv' /\ FileInv'
    BY <1>2, <1>5, <2>1 DEF DownInv, FileInv
  <2> QED BY <2>2, <2>3
<1> QED BY <1>4, <1>5 DEF Marks

\* The steps of Volumes::release.
LEMMA ReleasePersists ==
  ASSUME TypeInv, PersistInv, NEW t \in Taker, Release(t) \/ DeleteTaken(t)
  PROVE  PersistInv'
<1>1. t \in Thread /\ t \in Worker
  BY DEF Thread, Worker
<1>2. pc[Main] # "down"
  BY <1>1 DEF PersistInv, DownInv, Release, GetIdleVolume, NoIdleVolume, ReadRecord, MarkTaken, Umount,
     DetachIssue, DetachRefused, DetachDone, DetachTimeout, MarkUndetached, DeleteTaken, Moves
<1>3. UNCHANGED fileVars
  BY DEF Release, GetIdleVolume, NoIdleVolume, ReadRecord, MarkTaken, Umount,
     DetachIssue, DetachRefused, DetachDone, DetachTimeout, MarkUndetached, DeleteTaken, fileVars
<1>4. Advances
  BY <1>1, <1>2 DEF Advances, Control, Release, GetIdleVolume, NoIdleVolume, ReadRecord, MarkTaken,
     Umount, DetachIssue, DetachRefused, DetachDone, DetachTimeout, MarkUndetached, DeleteTaken, Moves
<1>5. Marks
  BY <1>1, <1>2 DEF Marks, Release, GetIdleVolume, NoIdleVolume, ReadRecord, MarkTaken, Umount,
     DetachIssue, DetachRefused, DetachDone, DetachTimeout, MarkUndetached, DeleteTaken, Moves,
     UpdatesStatus, Stores, listVars
<1> QED BY <1>2, <1>3, <1>4, <1>5, AdvancePersists

\* The steps of clientDiskAquire_handler.
LEMMA AquirePersists ==
  ASSUME TypeInv, PersistInv, NEW t \in Worker,
         (t \in Client /\ Aquire(t)) \/ CheckReleased(t) \/ DropRecord(t)
  PROVE  PersistInv'
<1>1. t \in Thread
  BY DEF Thread
<1>2. pc[Main] # "down"
  BY DEF PersistInv, DownInv, Aquire, SendVolume, AckOK, AckFailed, ConnectionLost, CheckReleased,
     DropRecord, Moves
<1>3. UNCHANGED fileVars
  BY DEF Aquire, SendVolume, AckOK, AckFailed, ConnectionLost, CheckReleased, DropRecord
<1>4. Advances
  BY <1>1, <1>2 DEF Advances, Control, Aquire, SendVolume, AckOK, AckFailed, ConnectionLost,
     CheckReleased, DropRecord, Moves
<1>5. Marks
  BY <1>1, <1>2 DEF Marks, Aquire, SendVolume, AckOK, AckFailed, ConnectionLost, CheckReleased,
     DropRecord, Moves, UpdatesStatus, Stores
<1> QED BY <1>2, <1>3, <1>4, <1>5, AdvancePersists

\* The steps of Volumes::acquire.
LEMMA CreatePersists ==
  ASSUME TypeInv, PersistInv, NEW t \in Creator, Create(t)
  PROVE  PersistInv'
<1>1. t \in Thread /\ t \in Worker
  BY DEF Thread, Worker
<1>2. pc[Main] # "down"
  BY <1>1 DEF PersistInv, DownInv, Create, LoadCounter, StoreCounter, CreateVolume, CreateFails,
     CreateMisread, AttachDone, AttachFails, DeleteUnattached, MountDone, MountGivenUp, AddVolume, Moves
<1>3. UNCHANGED fileVars
  BY DEF Create, LoadCounter, StoreCounter, CreateVolume, CreateFails, CreateMisread, AttachDone,
     AttachFails, DeleteUnattached, MountDone, MountGivenUp, AddVolume
<1>4. Advances
  BY <1>1, <1>2 DEF Advances, Control, Create, LoadCounter, StoreCounter, CreateVolume, CreateFails,
     CreateMisread, AttachDone, AttachFails, DeleteUnattached, MountDone, MountGivenUp, AddVolume, Moves
<1>5. Marks
  BY <1>1, <1>2 DEF Marks, Create, LoadCounter, StoreCounter, CreateVolume, CreateFails, CreateMisread,
     AttachDone, AttachFails, DeleteUnattached, MountDone, MountGivenUp, AddVolume, Moves, Stores
<1> QED BY <1>2, <1>3, <1>4, <1>5, AdvancePersists

\* The steps of main's loop, of the clients and of EC2.
LEMMA OthersPersist ==
  ASSUME TypeInv, PersistInv,
         \/ \E t \in Creator : SpawnCreator(t)
         \/ \E t \in Remover : SpawnRemover(t)
         \/ \E c \in Client : ClientStep(c)
         \/ \E v \in Volume : EbsDetached(v)
         \/ RemountEnds
         \/ \E i : RemountKeeps(i) \/ RemountMounts(i) \/ RemountDrops(i)
  PROVE  PersistInv'
<1> Main \in Thread /\ Creator \subseteq Thread /\ Remover \subseteq Thread
    /\ Releaser \subseteq Thread /\ Client \subseteq Thread
  BY DEF Thread, Worker, Taker
<1>1. ASSUME NEW t \in Thread, SpawnCreator(t) \/ SpawnRemover(t) PROVE PersistInv'
  <2>1. UNCHANGED fileVars /\ UNCHANGED listVars /\ pc[Main] = "loop"
    BY <1>1 DEF SpawnCreator, SpawnRemover
  <2>2. Advances
    BY <1>1 DEF Advances, Control, SpawnCreator, SpawnRemover
  <2> QED BY <2>1, <2>2, AdvancePersists DEF Marks
<1>2. ASSUME NEW c \in Client, ClientStep(c) PROVE PersistInv'
  <2>1. UNCHANGED fileVars /\ UNCHANGED listVars
    BY <1>2 DEF ClientStep, ClientAsks, ClientTurnedAway, ClientReceives, ClientAttaches,
       ClientAttachFails, ClientMounts, ClientMountFails, ClientDiscards, ClientAnswers, ClientDies,
       ClientDetaches, ClientDeletes, ClientReleaseFails, NotifyLost, ClientNotifies
  <2>2. pc' = pc \/ (pc[Main] = "loop" /\ \E t \in Thread, q \in {"pick", "check"} : pc' = [pc EXCEPT ![t] = q])
    BY <1>2 DEF ClientStep, ClientAsks, ClientTurnedAway, ClientReceives, ClientAttaches,
       ClientAttachFails, ClientMounts, ClientMountFails, ClientDiscards, ClientAnswers, ClientDies,
       ClientDetaches, ClientDeletes, ClientReleaseFails, NotifyLost, ClientNotifies
  <2> QED BY <2>1, <2>2, AdvancePersists DEF Marks, Advances, Control
<1>3. ASSUME NEW v \in Volume, EbsDetached(v) PROVE PersistInv'
  BY <1>3, AdvancePersists DEF EbsDetached, Marks, Advances
<1>4. CASE RemountEnds \/ \E i : RemountKeeps(i) \/ RemountMounts(i) \/ RemountDrops(i)
  <2>1. UNCHANGED fileVars /\ pc[Main] # "down"
    BY <1>4 DEF RemountEnds, RemountKeeps, RemountMounts, RemountDrops, Remounts, Moves
  <2>2. Advances
    BY <1>4, <2>1 DEF Advances, Control, RemountEnds, RemountKeeps, RemountMounts, RemountDrops, Remounts, Moves
  <2>3. Marks
    BY <1>4, <2>1 DEF Marks, RemountEnds, RemountKeeps, RemountMounts, RemountDrops, Remounts, Moves, Stores
  <2> QED BY <2>1, <2>2, <2>3, AdvancePersists
<1> QED BY <1>1, <1>2, <1>3, <1>4

\* write_to_file, under the mutex: what was copied is still the list when no
\* other write is due.
LEMMA WritePersists ==
  ASSUME TypeInv, PersistInv, NEW t \in Thread, WriteStep(t)
  PROVE  PersistInv'
<1> USE DEF PersistInv
<1>1. UNCHANGED <<pc, m_volumes>> /\ wr[t] # "no" /\ pc[Main] # "down"
  BY DEF WriteStep, OpenFile, OpenFails, CopyRecords, CloseFile, DownInv
<1>2. DownInv'
  BY <1>1 DEF DownInv
<1>3. CASE OpenFile(t) \/ OpenFails(t)
  <2>1. PICK w \in {"open", "no"} : wr' = [wr EXCEPT ![t] = w] /\ (w = "open" \/ writeFailed')
    BY <1>3 DEF OpenFile, OpenFails
  <2>2. wr'[t] = w /\ \A u \in Thread \ {t} : wr'[u] = wr[u]
    BY <2>1 DEF TypeInv, TypeOK
  <2>3. buf' = buf /\ wr[t] = "due" /\ Unlocked
    BY <1>3 DEF OpenFile, OpenFails
  <2>4. MutexInv' /\ FileInv'
    BY <2>1, <2>2, <2>3 DEF MutexInv, FileInv, Unlocked
  <2> QED BY <1>2, <2>4
<1>4. CASE CopyRecords(t)
  <2>1. wr' = [wr EXCEPT ![t] = "copied"] /\ buf' = [buf EXCEPT ![t] = m_volumes] /\ wr[t] = "open"
    BY <1>4 DEF CopyRecords
  <2>2. wr'[t] = "copied" /\ buf'[t] = m_volumes
        /\ \A u \in Thread \ {t} : wr'[u] = wr[u] /\ buf'[u] = buf[u] /\ wr[u] \notin {"open", "copied"}
    BY <2>1 DEF TypeInv, TypeOK, MutexInv
  <2>3. MutexInv' /\ FileInv'
    BY <1>1, <2>2 DEF MutexInv, FileInv
  <2> QED BY <1>2, <2>3
<1>5. CASE CloseFile(t)
  <2>1. wr' = [wr EXCEPT ![t] = "no"] /\ buf' = [buf EXCEPT ![t] = <<>>] /\ wr[t] = "copied"
        /\ volumeFile' = buf[t]
    BY <1>5 DEF CloseFile
  <2>2. wr'[t] = "no" /\ buf'[t] = <<>>
        /\ \A u \in Thread \ {t} : wr'[u] = wr[u] /\ buf'[u] = buf[u] /\ wr[u] \notin {"open", "copied"}
    BY <2>1 DEF TypeInv, TypeOK, MutexInv
  <2>3. MutexInv'
    BY <2>2 DEF MutexInv
  <2>4. FileInv'
    <3> SUFFICES ASSUME \A u \in Thread : wr'[u] \notin {"due", "open"}
                 PROVE  buf[t] = m_volumes
      BY <1>1, <2>1, <2>2 DEF FileInv
    <3> QED BY <1>1, <2>1, <2>2 DEF FileInv
  <2> QED BY <1>2, <2>3, <2>4
<1> QED BY <1>3, <1>4, <1>5 DEF WriteStep

\* The list is what was just loaded, and a stop leaves no list to compare.
LEMMA RestartPersists ==
  ASSUME TypeInv, PersistInv, LoadFile \/ Crash
  PROVE  PersistInv'
<1> USE DEF PersistInv
<1>1. CASE LoadFile
  <2>1. UNCHANGED <<wr, buf>> /\ m_volumes' = volumeFile' /\ pc' = [pc EXCEPT ![Main] = "remount"]
        /\ pc[Main] = "down"
    BY <1>1 DEF LoadFile
  <2>2. pc'[Main] # "down"
    BY <2>1 DEF TypeInv, TypeOK, Thread
  <2>3. \A t \in Thread : wr'[t] = "no"
    BY <2>1 DEF DownInv
  <2> QED BY <2>1, <2>2, <2>3 DEF MutexInv, DownInv, FileInv
<1>2. CASE Crash
  <2>1. /\ pc' = [t \in Thread |-> IF t = Main THEN "down" ELSE IF pc[t] = "off" THEN "off" ELSE "done"]
        /\ wr' = [t \in Thread |-> "no"] /\ buf' = [t \in Thread |-> <<>>] /\ m_volumes' = <<>>
    BY <1>2 DEF Crash
  <2>2. pc'[Main] = "down" /\ \A t \in Worker : pc'[t] \in {"off", "done"}
    BY <2>1, ThreadAssumption DEF Thread
  <2> QED BY <2>1, <2>2 DEF MutexInv, DownInv, FileInv
<1> QED BY <1>1, <1>2

\* The daemon starts with the list it has loaded.
LEMMA InitPersistent == Init => PersistInv
<1> SUFFICES ASSUME Init PROVE PersistInv
  OBVIOUS
<1>1. /\ wr = [t \in Thread |-> "no"] /\ buf = [t \in Thread |-> <<>>] /\ volumeFile = m_volumes
      /\ pc = [t \in Thread |-> IF t = Main THEN "loop" ELSE "off"]
  BY DEF Init
<1>2. pc[Main] = "loop"
  BY <1>1 DEF Thread
<1> QED BY <1>1, <1>2 DEF PersistInv, MutexInv, DownInv, FileInv

\* PersistInv is inductive.
LEMMA NextPersistent == TypeInv /\ PersistInv /\ [Next]_vars => PersistInv'
<1> SUFFICES ASSUME TypeInv, PersistInv, [Next]_vars PROVE PersistInv'
  OBVIOUS
<1>1. CASE UNCHANGED vars
  BY <1>1 DEF PersistInv, vars, listVars, fileVars, MutexInv, DownInv, FileInv
<1>2. CASE Next
  <2>1. ASSUME NEW t \in Client, Aquire(t) PROVE PersistInv'
    BY <2>1, AquirePersists DEF Worker, Taker
  <2>2. ASSUME NEW t \in Remover \cup Releaser, CheckReleased(t) \/ DropRecord(t) PROVE PersistInv'
    BY <2>2, AquirePersists DEF Worker, Taker
  <2>3. CASE StartUp
    BY <2>3, OthersPersist, RestartPersists DEF StartUp
  <2> QED BY <1>2, <2>1, <2>2, <2>3, ReleasePersists, CreatePersists, OthersPersist, WritePersists,
             RestartPersists DEF Next
<1> QED BY <1>1, <1>2

\* Whenever no write is due or under way, and the last one has not failed, the file
\* holds the list: whatever stops, restarts and interleavings came before.
THEOREM FileFollowsList == Spec => []FilePersisted
<1>1. TypeInv /\ PersistInv => FilePersisted
  BY DEF PersistInv, FileInv, FilePersisted
<1>2. TypeInv /\ PersistInv /\ [Next]_vars => (TypeInv /\ PersistInv)'
  BY NextType, NextPersistent
<1>3. Init => TypeInv /\ PersistInv
  BY InitType, InitPersistent
<1> QED BY <1>1, <1>2, <1>3, PTL DEF Spec
=============================================================================
