---------------------------- MODULE ProvisionProofs ----------------------------
(***************************************************************************)
(* TLAPS proof that two creators that chose the same device name come to   *)
(* no harm: one is refused, and what is mounted and offered is each one's *)
(* own volume, whatever the names, the tries and the order of the steps.   *)
(***************************************************************************)
EXTENDS Provision, FiniteSetTheorems, FunctionTheorems, WellFoundedInduction, TLAPS

Used(v) == ebs[v] \in {"attaching", "attached", "detaching"}

\* TypeOK, and what keeps it: a name is chosen before it is held or used.
TypeInv ==
  /\ TypeOK
  /\ \A t \in Creator : pc[t] \notin {"off", "listed"} => device[t] \in Device
  /\ \A v \in Volume : Used(v) => ebsDevice[v] \in Device

\* EC2 attaches at most one volume under a name.
NamesUnique == \A u, v \in Volume : (Used(u) /\ Used(v) /\ ebsDevice[u] = ebsDevice[v]) => u = v

\* From the accepted call on, a creator's volume is attached under its name, or
\* is being attached; and nobody else touches it before its record is idle.
OwnVolume ==
  \A t \in Creator :
    /\ pc[t] \in {"off", "listed", "chosen", "create", "spin"} => ebs[t] = "absent"
    /\ pc[t] \in {"attaching", "mount", "mountfs", "detach", "add"} =>
         ebs[t] \in {"attaching", "attached"} /\ ebsDevice[t] = device[t]
    /\ pc[t] \in {"mount", "mountfs", "detach", "add"} => ebs[t] = "attached"
    /\ status[t] # "none" => pc[t] \in {"free", "done"}

\* An idle volume is attached under the name of its record.
IdleAttached ==
  \A v \in Volume : status[v] = "idle" => ebs[v] = "attached" /\ ebsDevice[v] = RecordDevice(v)

NameInv == NamesUnique /\ OwnVolume /\ IdleAttached /\ MountsOwn

-----------------------------------------------------------------------------
(* Names.                                                                  *)

\* What get_device returns is one of the names.
LEMMA ChosenDevice ==
  ASSUME NEW used
  PROVE  Chosen(used) \in Device
<1>1. CASE Device \subseteq used
  BY <1>1, NameAssumption DEF Chosen, Device
<1>2. CASE ~(Device \subseteq used)
  <2>1. Device \ used # {} /\ Device \ used \subseteq Nat
    BY <1>2, NameAssumption DEF Device
  <2>2. PICK d \in Device \ used : \A e \in Device \ used : ~(<<e, d>> \in OpToRel(<, Nat))
    BY <2>1, NatLessThanWellFounded, WFMin
  <2>3. \A e \in Device \ used : ~(e < d)
    BY <2>1, <2>2 DEF OpToRel
  <2>4. \A e \in Device \ used : d <= e
    BY <2>1, <2>3
  <2> QED BY <1>2, <2>4 DEF Chosen
<1> QED BY <1>1, <1>2

\* What is in a list is there for a first time.
LEMMA FirstEqual ==
  ASSUME NEW s \in Seq(Device), NEW d \in Elements(s)
  PROVE  \E k \in DOMAIN s : s[k] = d /\ \A j \in 1 .. k - 1 : s[j] # d
<1> DEFINE T == {n \in DOMAIN s : s[n] = d}
<1>1. T # {} /\ T \subseteq Nat /\ Len(s) \in Nat /\ DOMAIN s = 1 .. Len(s)
  BY DEF Elements
<1>2. PICK k \in T : \A j \in T : ~(<<j, k>> \in OpToRel(<, Nat))
  BY <1>1, NatLessThanWellFounded, WFMin
<1>3. \A j \in T : ~(j < k)
  BY <1>1, <1>2 DEF OpToRel
<1>4. \A j \in 1 .. k - 1 : s[j] # d
  BY <1>1, <1>3
<1> QED BY <1>4

\* remove_element takes out one element, a first equal one.
LEMMA WithoutFirstIs ==
  ASSUME NEW s \in Seq(Device), NEW d \in Elements(s)
  PROVE  \E i \in 1 .. Len(s) :
           /\ s[i] = d
           /\ WithoutFirst(s, d) = [j \in 1 .. Len(s) - 1 |-> IF j < i THEN s[j] ELSE s[j + 1]]
<1> DEFINE i == CHOOSE k \in DOMAIN s : s[k] = d /\ \A j \in 1 .. k - 1 : s[j] # d
<1>1. i \in 1 .. Len(s) /\ s[i] = d
  BY FirstEqual
<1>2. WithoutFirst(s, d) = [j \in 1 .. Len(s) - 1 |-> IF j < i THEN s[j] ELSE s[j + 1]]
  BY DEF WithoutFirst
<1> HIDE DEF i
<1> QED BY <1>1, <1>2

\* remove_element leaves a list of names.
LEMMA WithoutFirstType ==
  ASSUME NEW s \in Seq(Device), NEW d
  PROVE  WithoutFirst(s, d) \in Seq(Device)
<1>1. CASE d \notin Elements(s)
  BY <1>1 DEF WithoutFirst
<1>2. CASE d \in Elements(s)
  <2>1. PICK i \in 1 .. Len(s) :
          WithoutFirst(s, d) = [j \in 1 .. Len(s) - 1 |-> IF j < i THEN s[j] ELSE s[j + 1]]
    BY <1>2, WithoutFirstIs
  <2>2. \A j \in 1 .. Len(s) - 1 : (IF j < i THEN s[j] ELSE s[j + 1]) \in Device
    OBVIOUS
  <2>3. [j \in 1 .. Len(s) - 1 |-> IF j < i THEN s[j] ELSE s[j + 1]] \in Seq(Device)
    BY <2>2
  <2> QED BY <2>1, <2>3
<1> QED BY <1>1, <1>2

-----------------------------------------------------------------------------
(* Types.                                                                  *)

LEMMA InitType == Init => TypeInv
BY NameAssumption, TriesAssumption
DEF Init, TypeInv, TypeOK, Used, Volume, Control, EbsState, NoDevice, Device

LEMMA AcquireType ==
  ASSUME TypeInv, NEW t \in Creator, Acquire(t)
  PROVE  TypeInv'
<1> USE DEF TypeInv, TypeOK, Moves, Used, Control, EbsState, locals, ec2Vars
<1>1. t \in Volume /\ NoDevice \notin Device /\ MaxTries \in Nat /\ MaxMounts \in Nat
  BY NameAssumption, TriesAssumption DEF Volume, NoDevice, Device
<1>2. CASE ReadLsblk(t)
  <2>1. Visible \subseteq Device /\ InUse \subseteq Device
    BY DEF Visible, InUse
  <2> QED BY <1>1, <1>2, <2>1 DEF ReadLsblk
<1>3. CASE GetDevice(t)
  <2>1. Chosen(seen[t] \cup Elements(m_devicesOnHold)) \in Device
    BY ChosenDevice
  <2> QED BY <1>1, <1>3, <2>1 DEF GetDevice
<1>4. CASE HoldDevice(t)
  BY <1>1, <1>4 DEF HoldDevice
<1>5. CASE CreateVolume(t) \/ CreateFails(t) \/ CreateMisread(t)
  BY <1>1, <1>5 DEF CreateVolume, CreateFails, CreateMisread, Becomes
<1>6. CASE AttachAccepted(t) \/ AttachRefused(t)
  BY <1>1, <1>6 DEF AttachAccepted, AttachRefused, Becomes
<1>7. CASE PollAttached(t)
  BY <1>1, <1>7 DEF PollAttached
<1>8. CASE PollAttaching(t) \/ PollFails(t) \/ DeleteFails(t)
  <2>1. \E n \in Nat : retry' = [retry EXCEPT ![t] = n]
    BY <1>1, <1>8 DEF PollAttaching, PollFails, DeleteFails, Counts
  <2>2. \E q \in {"attaching", "del", "free"} : pc' = [pc EXCEPT ![t] = q]
    BY <1>8 DEF PollAttaching, PollFails, DeleteFails
  <2>3. pc[t] \notin {"off", "listed"}
        /\ UNCHANGED <<seen, device, mountPoint, m_devicesOnHold, ebs, ebsDevice, mounts, status, clock>>
    BY <1>8 DEF PollAttaching, PollFails, DeleteFails
  <2> QED BY <1>1, <2>1, <2>2, <2>3
<1>9. CASE DeleteWorks(t)
  BY <1>1, <1>9 DEF DeleteWorks, Becomes
<1>10. CASE MountChecks(t)
  BY <1>1, <1>10 DEF MountChecks
<1>14. CASE MountFails(t)
  BY <1>1, <1>14 DEF MountFails
<1>13. CASE MountWorks(t) \/ MountGivenUp(t)
  <2>1. mounts' = mounts \/ \E v \in Volume : mounts' = mounts \cup {[by |-> t, volume |-> v, at |-> mountPoint[t]]}
    BY <1>13 DEF MountWorks, MountGivenUp, Mounted
  <2>2. mountPoint[t] \in 0 .. MaxTime
    OBVIOUS
  <2>3. mounts' \subseteq [by : Creator, volume : Volume, at : 0 .. MaxTime]
    BY <2>1, <2>2
  <2>4. \E q \in {"add", "detach"} : pc' = [pc EXCEPT ![t] = q]
    BY <1>13 DEF MountWorks, MountGivenUp
  <2>5. pc[t] \notin {"off", "listed"} /\ retry' = [retry EXCEPT ![t] = 0]
        /\ UNCHANGED <<seen, device, mountPoint, m_devicesOnHold, ebs, ebsDevice, status, clock>>
    BY <1>13 DEF MountWorks, MountGivenUp
  <2> QED BY <1>1, <2>3, <2>4, <2>5
<1>11. CASE Detach(t) \/ AddVolume(t)
  BY <1>1, <1>11 DEF Detach, AddVolume, Becomes
<1>12. CASE FreeDevice(t)
  <2>1. WithoutFirst(m_devicesOnHold, device[t]) \in Seq(Device)
    BY WithoutFirstType
  <2> QED BY <1>1, <1>12, <2>1 DEF FreeDevice
<1> QED BY <1>2, <1>3, <1>4, <1>5, <1>6, <1>7, <1>8, <1>9, <1>10, <1>11, <1>12, <1>13, <1>14
        DEF Acquire, Proceeds, Attach, Mount

LEMMA NextType == TypeInv /\ [Next]_vars => TypeInv'
<1> SUFFICES ASSUME TypeInv, [Next]_vars PROVE TypeInv'
  OBVIOUS
<1>1. ASSUME NEW v \in Volume, EbsAttached(v) \/ EbsDetached(v) \/ Taken(v) \/ Released(v) PROVE TypeInv'
  <2>1. mounts' \subseteq mounts
        /\ (status' = status \/ status' = [status EXCEPT ![v] = "taken"])
        /\ UNCHANGED <<pc, seen, device, mountPoint, retry, m_devicesOnHold, ebsDevice, clock>>
    BY <1>1 DEF EbsAttached, EbsDetached, Taken, Released, locals, ec2Vars
  <2>2. \/ ebs' = ebs
        \/ Used(v) /\ \E s \in {"attached", "available", "detaching"} : ebs' = [ebs EXCEPT ![v] = s]
    BY <1>1 DEF EbsAttached, EbsDetached, Taken, Released, Becomes, Used, ec2Vars
  <2> QED BY <2>1, <2>2 DEF TypeInv, TypeOK, Used, EbsState
<1>2. CASE Tick
  BY <1>2, TriesAssumption DEF Tick, TypeInv, TypeOK, Used, locals, ec2Vars
<1>3. CASE UNCHANGED vars
  BY <1>3 DEF vars, TypeInv, TypeOK, Used, locals, ec2Vars
<1> QED BY <1>1, <1>2, <1>3, AcquireType DEF Next

\* The states of acquire have the right types, for any creators and names: above
\* all, what is on hold and what is seen are device names.
THEOREM ProvisionTyped == Spec => []TypeOK
<1>1. TypeInv => TypeOK
  BY DEF TypeInv
<1> QED BY <1>1, InitType, NextType, PTL DEF Spec

-----------------------------------------------------------------------------
(* The names, the volumes and the mounts.                                  *)

LEMMA InitName == Init => NameInv
BY NameAssumption
DEF Init, NameInv, NamesUnique, OwnVolume, IdleAttached, RecordDevice, MountsOwn, Used, Volume, NoDevice, Device

\* What is idle stays as its record says.
LEMMA IdleSame ==
  ASSUME IdleAttached,
         \A v \in Volume : status'[v] = "idle" =>
           /\ status[v] = "idle" /\ ebs'[v] = ebs[v] /\ ebsDevice'[v] = ebsDevice[v]
           /\ v \in Creator => device'[v] = device[v]
  PROVE  IdleAttached'
BY DEF IdleAttached, RecordDevice, Volume

\* A step that changes no volume, no mount and no list.
Still == UNCHANGED <<ebs, ebsDevice, mounts, status>>

LEMMA ControlName ==
  ASSUME TypeInv, NameInv, NEW t \in Creator, Still, NEW q \in Control, pc' = [pc EXCEPT ![t] = q],
         \A u \in Creator \ {t} : device'[u] = device[u],
         pc[t] \in {"off", "listed"} \/ device'[t] = device[t],
         q \in {"off", "listed", "chosen", "create", "spin"} => pc[t] \in {"off", "listed", "chosen", "create"},
         q \in {"attaching", "mount", "mountfs", "detach", "add"} =>
           /\ pc[t] \in {"attaching", "mount", "mountfs", "detach", "add"}
           /\ q # "attaching" => ebs[t] = "attached",
         pc[t] \in {"free", "done"} => q \in {"free", "done"}
  PROVE  NameInv'
<1>1. pc \in [Creator -> Control] /\ Creator \subseteq Volume
  BY DEF TypeInv, TypeOK, Volume
<1>2. NamesUnique' /\ MountsOwn'
  BY DEF NameInv, NamesUnique, MountsOwn, Used, Still
<1>3. OwnVolume'
  BY <1>1 DEF NameInv, OwnVolume, Still
<1>4. IdleAttached'
  <2>1. \A u \in Creator : status[u] = "idle" => device'[u] = device[u]
    BY DEF NameInv, OwnVolume
  <2> QED BY <2>1, IdleSame DEF NameInv, Still
<1> QED BY <1>2, <1>3, <1>4 DEF NameInv

LEMMA AcquireName ==
  ASSUME TypeInv, NameInv, NEW t \in Creator, Acquire(t)
  PROVE  NameInv'
<1>1. /\ pc \in [Creator -> Control] /\ device \in [Creator -> Device \cup {NoDevice}]
      /\ ebs \in [Volume -> EbsState] /\ ebsDevice \in [Volume -> Device \cup {NoDevice}]
      /\ t \in Volume /\ Creator \subseteq Volume
  BY DEF TypeInv, TypeOK, Volume
<1>2. CASE ReadLsblk(t) \/ GetDevice(t) \/ HoldDevice(t)
  <2>1. Still /\ (\A u \in Creator \ {t} : device'[u] = device[u])
        /\ (pc[t] \in {"off", "listed"} \/ device'[t] = device[t])
    BY <1>1, <1>2 DEF ReadLsblk, GetDevice, HoldDevice, Moves, Still, ec2Vars
  <2>2. \E q \in {"listed", "chosen", "create"} : pc' = [pc EXCEPT ![t] = q]
    BY <1>2 DEF ReadLsblk, GetDevice, HoldDevice, Moves
  <2>3. pc[t] \in {"off", "listed", "chosen"}
    BY <1>2 DEF ReadLsblk, GetDevice, HoldDevice, Moves
  <2> QED BY <2>1, <2>2, <2>3, ControlName DEF Control
<1>3. CASE CreateFails(t) \/ CreateMisread(t) \/ AttachRefused(t)
  <2>1. Still /\ device' = device
    BY <1>3 DEF CreateFails, CreateMisread, AttachRefused, Still, ec2Vars, locals
  <2>2. \/ pc[t] = "create" /\ pc' = [pc EXCEPT ![t] = "spin"]
        \/ pc[t] = "spin" /\ pc' = [pc EXCEPT ![t] = "attach"]
        \/ pc[t] = "attach" /\ pc' = [pc EXCEPT ![t] = "del"]
    BY <1>3 DEF CreateFails, CreateMisread, AttachRefused, Moves
  <2> QED BY <2>1, <2>2, ControlName DEF Control
<1>4. CASE CreateVolume(t)
  <2>1. /\ pc[t] = "create" /\ pc' = [pc EXCEPT ![t] = "attach"] /\ ebs' = [ebs EXCEPT ![t] = "available"]
        /\ UNCHANGED <<device, ebsDevice, mounts, status>>
    BY <1>4 DEF CreateVolume, Moves, Becomes, locals
  <2>2. ebs[t] = "absent" /\ status[t] = "none"
    BY <2>1 DEF NameInv, OwnVolume
  <2>3. IdleAttached'
    BY <1>1, <2>1, <2>2, IdleSame DEF NameInv
  <2> QED BY <1>1, <2>1, <2>2, <2>3 DEF NameInv, NamesUnique, OwnVolume, MountsOwn, Used
<1>5. CASE AttachAccepted(t)
  <2>1. /\ pc[t] = "attach" /\ pc' = [pc EXCEPT ![t] = "attaching"] /\ ebs' = [ebs EXCEPT ![t] = "attaching"]
        /\ ebsDevice' = [ebsDevice EXCEPT ![t] = device[t]]
        /\ ebs[t] = "available" /\ UNCHANGED <<device, mounts, status>>
    BY <1>5 DEF AttachAccepted, Moves, Becomes, locals
  <2>2. \A v \in Volume : Used(v) => ebsDevice[v] # device[t]
    BY <1>5 DEF AttachAccepted, InUse, Used
  <2>3. status[t] = "none"
    BY <2>1 DEF NameInv, OwnVolume
  <2>4. NamesUnique'
    BY <1>1, <2>1, <2>2 DEF NameInv, NamesUnique, Used
  <2>5. OwnVolume' /\ MountsOwn'
    BY <1>1, <2>1, <2>3 DEF NameInv, OwnVolume, MountsOwn
  <2>6. IdleAttached'
    BY <1>1, <2>1, <2>3, IdleSame DEF NameInv
  <2> QED BY <2>4, <2>5, <2>6 DEF NameInv
<1>6. CASE PollAttached(t) \/ PollAttaching(t) \/ PollFails(t)
  <2>1. Still /\ device' = device /\ pc[t] = "attaching"
    BY <1>6 DEF PollAttached, PollAttaching, PollFails, Moves, Still, ec2Vars
  <2>2. \/ pc' = [pc EXCEPT ![t] = "mount"] /\ ebs[t] = "attached"
        \/ pc' = [pc EXCEPT ![t] = "attaching"]
        \/ pc' = [pc EXCEPT ![t] = "del"]
    BY <1>6 DEF PollAttached, PollAttaching, PollFails, Moves
  <2> QED BY <2>1, <2>2, ControlName DEF Control
<1>7. CASE DeleteFails(t) \/ FreeDevice(t)
  <2>1. Still /\ device' = device
    BY <1>7 DEF DeleteFails, FreeDevice, Still, ec2Vars, locals
  <2>2. \/ pc[t] = "del" /\ pc' = [pc EXCEPT ![t] = "free"]
        \/ pc[t] = "del" /\ pc' = [pc EXCEPT ![t] = "del"]
        \/ pc[t] = "free" /\ pc' = [pc EXCEPT ![t] = "done"]
    BY <1>7 DEF DeleteFails, FreeDevice, Moves
  <2> QED BY <2>1, <2>2, ControlName DEF Control
<1>8. CASE DeleteWorks(t)
  <2>1. /\ pc[t] = "del" /\ pc' = [pc EXCEPT ![t] = "free"] /\ ebs' = [ebs EXCEPT ![t] = "deleted"]
        /\ ebs[t] = "available" /\ UNCHANGED <<device, ebsDevice, mounts, status>>
    BY <1>8 DEF DeleteWorks, Moves, Becomes
  <2>2. status[t] = "none"
    BY <2>1 DEF NameInv, OwnVolume
  <2>3. IdleAttached'
    BY <1>1, <2>1, <2>2, IdleSame DEF NameInv
  <2> QED BY <1>1, <2>1, <2>2, <2>3 DEF NameInv, NamesUnique, OwnVolume, MountsOwn, Used
<1>9. CASE MountChecks(t) \/ MountFails(t)
  <2>1. Still /\ device' = device
    BY <1>9 DEF MountChecks, MountFails, Still, ec2Vars, locals
  <2>2. pc[t] \in {"mount", "mountfs"}
    BY <1>9 DEF MountChecks, MountFails, Moves
  <2>3. \E q \in {"mount", "mountfs"} : pc' = [pc EXCEPT ![t] = q]
    BY <1>9 DEF MountChecks, MountFails, Moves
  <2>4. ebs[t] = "attached"
    BY <2>2 DEF NameInv, OwnVolume
  <2> QED BY <2>1, <2>2, <2>3, <2>4, ControlName DEF Control
<1>10. CASE MountWorks(t) \/ MountGivenUp(t)
  <2>1. UNCHANGED <<ebs, ebsDevice, status, device>> /\ pc[t] \in {"mount", "mountfs"}
        /\ \E q \in {"add", "detach"} : pc' = [pc EXCEPT ![t] = q]
    BY <1>10 DEF MountWorks, MountGivenUp, Moves, ec2Vars
  <2>2. mounts' = mounts \/ \E v \in Volume : Mounted(t, v)
    BY <1>10 DEF MountWorks, MountGivenUp
  <2>3. ebs[t] = "attached" /\ ebsDevice[t] = device[t] /\ status[t] = "none"
    BY <2>1 DEF NameInv, OwnVolume
  <2>4. \A v \in Volume : Mounted(t, v) => v = t
    BY <1>1, <2>3 DEF NameInv, NamesUnique, Mounted, Used
  <2>5. MountsOwn'
    BY <2>2, <2>4 DEF NameInv, MountsOwn, Mounted
  <2>6. IdleAttached'
    BY <2>1, IdleSame DEF NameInv
  <2> QED BY <1>1, <2>1, <2>3, <2>5, <2>6 DEF NameInv, NamesUnique, OwnVolume, Used
<1>11. CASE Detach(t)
  <2>1. /\ pc[t] = "detach" /\ pc' = [pc EXCEPT ![t] = "free"]
        /\ (ebs' = ebs \/ ebs' = [ebs EXCEPT ![t] = "detaching"])
        /\ UNCHANGED <<device, ebsDevice, mounts, status>>
    BY <1>11 DEF Detach, Moves, Becomes, locals
  <2>2. status[t] = "none" /\ Used(t)
    BY <2>1 DEF NameInv, OwnVolume, Used
  <2>3. \A v \in Volume : (v # t => ebs'[v] = ebs[v]) /\ (Used(v)' => Used(v))
    BY <1>1, <2>1, <2>2 DEF Used
  <2>4. NamesUnique' /\ MountsOwn'
    BY <2>1, <2>3 DEF NameInv, NamesUnique, MountsOwn
  <2>5. \A u \in Creator : u # t => pc'[u] = pc[u]
    BY <1>1, <2>1
  <2>6. pc'[t] = "free"
    BY <1>1, <2>1
  <2>7. OwnVolume'
    BY <1>1, <2>1, <2>3, <2>5, <2>6 DEF NameInv, OwnVolume
  <2>8. IdleAttached'
    BY <2>1, <2>2, <2>3, IdleSame DEF NameInv
  <2> QED BY <2>4, <2>7, <2>8 DEF NameInv
<1>12. CASE AddVolume(t)
  <2>1. /\ pc[t] = "add" /\ pc' = [pc EXCEPT ![t] = "free"] /\ status' = [status EXCEPT ![t] = "idle"]
        /\ UNCHANGED <<device, ebs, ebsDevice, mounts>>
    BY <1>12 DEF AddVolume, Moves, locals, ec2Vars
  <2>2. ebs[t] = "attached" /\ ebsDevice[t] = RecordDevice(t)
    BY <2>1, NameAssumption DEF NameInv, OwnVolume, RecordDevice
  <2>3. IdleAttached'
    BY <1>1, <2>1, <2>2 DEF NameInv, IdleAttached, RecordDevice, TypeInv, TypeOK
  <2> QED BY <1>1, <2>1, <2>3 DEF NameInv, NamesUnique, OwnVolume, MountsOwn, Used
<1> QED BY <1>2, <1>3, <1>4, <1>5, <1>6, <1>7, <1>8, <1>9, <1>10, <1>11, <1>12
        DEF Acquire, Proceeds, Attach, Mount

LEMMA NextName ==
  ASSUME TypeInv, NameInv, [Next]_vars
  PROVE  NameInv'
<1> USE DEF NameInv, NamesUnique, OwnVolume, IdleAttached, RecordDevice, MountsOwn, Used
<1>1. ebs \in [Volume -> EbsState] /\ Creator \subseteq Volume
      /\ status \in [Volume -> {"none", "idle", "taken"}]
  BY DEF TypeInv, TypeOK, Volume
<1>2. ASSUME NEW v \in Volume, EbsAttached(v) PROVE NameInv'
  BY <1>1, <1>2 DEF EbsAttached, Becomes, locals
<1>3. ASSUME NEW v \in Volume, EbsDetached(v) PROVE NameInv'
  BY <1>1, <1>3 DEF EbsDetached, Becomes, locals
<1>4. ASSUME NEW v \in Volume, Taken(v) PROVE NameInv'
  BY <1>1, <1>4 DEF Taken, locals, ec2Vars
<1>6. ASSUME NEW v \in Volume, Released(v) PROVE NameInv'
  BY <1>1, <1>6 DEF Released, Becomes, locals
<1>5. CASE Tick \/ UNCHANGED vars
  BY <1>5 DEF Tick, vars, locals, ec2Vars
<1> QED BY <1>2, <1>3, <1>4, <1>5, <1>6, AcquireName DEF Next

\* Whatever names the creators choose, no two idle records have the same, and the
\* volume of each is attached under it.
THEOREM DevicesAreDistinct == Spec => []DevicesDistinct
<1>1. TypeInv /\ NameInv => DevicesDistinct
  BY DEF TypeInv, TypeOK, NameInv, NamesUnique, IdleAttached, DevicesDistinct, Used
<1>2. TypeInv /\ NameInv /\ [Next]_vars => (TypeInv /\ NameInv)'
  BY NextType, NextName
<1> QED BY <1>1, <1>2, InitType, InitName, PTL DEF Spec

\* A creator never mounts another's volume.
THEOREM CreatorsMountTheirOwn == Spec => []MountsOwn
<1>1. TypeInv /\ NameInv => MountsOwn
  BY DEF NameInv
<1>2. TypeInv /\ NameInv /\ [Next]_vars => (TypeInv /\ NameInv)'
  BY NextType, NextName
<1> QED BY <1>1, <1>2, InitType, InitName, PTL DEF Spec

-----------------------------------------------------------------------------
(* The names on hold.                                                      *)

\* Where a name is in a list, and who works with it.
Places(s, d) == {i \in DOMAIN s : s[i] = d}
Holders(d) == {t \in Creator : pc[t] \in Holding /\ device[t] = d}

LEMMA PlacesFinite ==
  ASSUME NEW s \in Seq(Device), NEW d
  PROVE  IsFiniteSet(Places(s, d)) /\ Cardinality(Places(s, d)) \in Nat
<1>1. IsFiniteSet(1 .. Len(s)) /\ Places(s, d) \subseteq 1 .. Len(s)
  BY FS_Interval DEF Places
<1> QED BY <1>1, FS_Subset, FS_CardinalityType

\* push_back adds a place of its name.
LEMMA PlacesAppend ==
  ASSUME NEW s \in Seq(Device), NEW e \in Device, NEW d \in Device
  PROVE  Cardinality(Places(Append(s, e), d))
           = IF d = e THEN Cardinality(Places(s, d)) + 1 ELSE Cardinality(Places(s, d))
<1>1. Places(Append(s, e), d) = IF d = e THEN Places(s, d) \cup {Len(s) + 1} ELSE Places(s, d)
  BY DEF Places
<1>2. Len(s) + 1 \notin Places(s, d)
  BY DEF Places
<1> QED BY <1>1, <1>2, PlacesFinite, FS_AddElement

\* remove_element takes one place of its name and moves the others.
LEMMA PlacesWithout ==
  ASSUME NEW s \in Seq(Device), NEW e \in Elements(s), NEW d \in Device
  PROVE  Cardinality(Places(WithoutFirst(s, e), d))
           = IF d = e THEN Cardinality(Places(s, d)) - 1 ELSE Cardinality(Places(s, d))
<1>1. PICK i \in 1 .. Len(s) :
        /\ s[i] = e
        /\ WithoutFirst(s, e) = [j \in 1 .. Len(s) - 1 |-> IF j < i THEN s[j] ELSE s[j + 1]]
  BY WithoutFirstIs
<1> DEFINE r == [j \in 1 .. Len(s) - 1 |-> IF j < i THEN s[j] ELSE s[j + 1]]
           move == [j \in Places(r, d) |-> IF j < i THEN j ELSE j + 1]
           rest == Places(s, d) \ {i}
<1>2. Len(s) \in Nat /\ DOMAIN s = 1 .. Len(s)
  OBVIOUS
<1>3. \A j \in Places(r, d) : j \in 1 .. Len(s) - 1 /\ (IF j < i THEN s[j] ELSE s[j + 1]) = d
  BY DEF Places
<1>4. move \in [Places(r, d) -> rest] /\ \A j, k \in Places(r, d) : move[j] = move[k] => j = k
  <2>1. \A j \in Places(r, d) : move[j] \in rest
    BY <1>2, <1>3 DEF Places
  <2>2. \A j, k \in Places(r, d) : move[j] = move[k] => j = k
    BY <1>2, <1>3
  <2> QED BY <2>1, <2>2
<1>5. \A k \in rest : \E j \in Places(r, d) : move[j] = k
  <2> SUFFICES ASSUME NEW k \in rest PROVE \E j \in Places(r, d) : move[j] = k
    OBVIOUS
  <2>1. k \in 1 .. Len(s) /\ k # i /\ s[k] = d
    BY <1>2 DEF Places
  <2>2. CASE k < i
    <3>1. k \in Places(r, d)
      BY <1>2, <2>1, <2>2 DEF Places
    <3> QED BY <2>2, <3>1
  <2>3. CASE k > i
    <3>1. k - 1 \in Places(r, d)
      BY <1>2, <2>1, <2>3 DEF Places
    <3>2. move[k - 1] = k
      BY <2>1, <2>3, <3>1
    <3> QED BY <3>1, <3>2
  <2> QED BY <1>2, <2>1, <2>2, <2>3
<1>6. ExistsBijection(Places(r, d), rest)
  <2> HIDE DEF move, rest, r
  <2>1. move \in Bijection(Places(r, d), rest)
    BY <1>4, <1>5, Fun_IsBij
  <2> QED BY <2>1 DEF ExistsBijection
<1>7. r \in Seq(Device)
  BY <1>1, WithoutFirstType
<1>8. Cardinality(rest) = Cardinality(Places(r, d))
  BY <1>6, <1>7, PlacesFinite, FS_Bijection
<1>9. Cardinality(rest) = IF d = e THEN Cardinality(Places(s, d)) - 1 ELSE Cardinality(Places(s, d))
  <2>1. i \in Places(s, d) <=> d = e
    BY <1>1, <1>2 DEF Places
  <2> QED BY <2>1, PlacesFinite, FS_RemoveElement
<1> QED BY <1>1, <1>8, <1>9

LEMMA HoldersFinite ==
  ASSUME IsFiniteSet(Creator), NEW d
  PROVE  IsFiniteSet(Holders(d)) /\ Cardinality(Holders(d)) \in Nat
<1>1. Holders(d) \subseteq Creator
  BY DEF Holders
<1> QED BY <1>1, FS_Subset, FS_CardinalityType

\* Only HoldDevice and FreeDevice change who holds what.
LEMMA NextCounted ==
  ASSUME IsFiniteSet(Creator), TypeInv, HoldsCounted, [Next]_vars
  PROVE  HoldsCounted'
<1>1. \A d \in Device : Cardinality(Places(m_devicesOnHold, d)) = Cardinality(Holders(d))
  BY DEF HoldsCounted, Places, Holders
<1> SUFFICES ASSUME NEW d \in Device
             PROVE  Cardinality(Places(m_devicesOnHold', d)) = Cardinality(Holders(d)')
  BY DEF HoldsCounted, Places, Holders
<1>2. m_devicesOnHold \in Seq(Device) /\ \A t \in Creator : pc[t] \in Holding => device[t] \in Device
  BY DEF TypeInv, TypeOK, Holding
<1>3. ASSUME NEW t \in Creator, HoldDevice(t)
      PROVE  Cardinality(Places(m_devicesOnHold', d)) = Cardinality(Holders(d)')
  <2>1. /\ pc[t] = "chosen" /\ pc' = [pc EXCEPT ![t] = "create"] /\ UNCHANGED device
        /\ device[t] \in Device
        /\ m_devicesOnHold' = Append(m_devicesOnHold, device[t])
    BY <1>3 DEF HoldDevice, Moves, TypeInv
  <2>2. Holders(d)' = IF d = device[t] THEN Holders(d) \cup {t} ELSE Holders(d)
    BY <2>1 DEF TypeInv, TypeOK, Holders, Holding, Control
  <2>3. t \notin Holders(d)
    BY <2>1 DEF Holders, Holding
  <2>4. Cardinality(Holders(d) \cup {t}) = Cardinality(Holders(d)) + 1
    BY <2>3, HoldersFinite, FS_AddElement
  <2> QED BY <1>1, <1>2, <2>1, <2>2, <2>4, PlacesAppend
<1>4. ASSUME NEW t \in Creator, FreeDevice(t)
      PROVE  Cardinality(Places(m_devicesOnHold', d)) = Cardinality(Holders(d)')
  <2>1. /\ pc[t] = "free" /\ pc' = [pc EXCEPT ![t] = "done"] /\ UNCHANGED device
        /\ device[t] \in Device
        /\ m_devicesOnHold' = WithoutFirst(m_devicesOnHold, device[t])
    BY <1>4 DEF FreeDevice, Moves, locals, TypeInv
  <2>2. Holders(d)' = IF d = device[t] THEN Holders(d) \ {t} ELSE Holders(d)
    BY <2>1 DEF TypeInv, TypeOK, Holders, Holding, Control
  <2>3. t \in Holders(device[t])
    BY <2>1 DEF Holders, Holding, Control
  <2>4. device[t] \in Elements(m_devicesOnHold)
    <3>1. Cardinality(Holders(device[t])) # 0
      BY <2>3, HoldersFinite, FS_EmptySet
    <3>2. Places(m_devicesOnHold, device[t]) # {}
      BY <1>1, <2>1, <3>1, FS_EmptySet
    <3> QED BY <3>2 DEF Places, Elements
  <2>5. d = device[t] => Cardinality(Holders(d) \ {t}) = Cardinality(Holders(d)) - 1
    BY <2>3, HoldersFinite, FS_RemoveElement
  <2>6. Cardinality(Places(m_devicesOnHold', d))
          = IF d = device[t] THEN Cardinality(Places(m_devicesOnHold, d)) - 1
            ELSE Cardinality(Places(m_devicesOnHold, d))
    BY <1>2, <2>1, <2>4, PlacesWithout
  <2> QED BY <1>1, <2>2, <2>5, <2>6
<1>5. ASSUME NEW t \in Creator, Acquire(t), ~HoldDevice(t), ~FreeDevice(t)
      PROVE  UNCHANGED m_devicesOnHold /\ Holders(d)' = Holders(d)
  <2> USE DEF Acquire, Proceeds, Attach, Mount, ReadLsblk, GetDevice, CreateVolume, CreateFails, CreateMisread,
     AttachAccepted, AttachRefused, PollAttached, PollAttaching, PollFails, DeleteWorks, DeleteFails,
     MountChecks, MountWorks, MountFails, MountGivenUp, Detach, AddVolume, Moves, locals
  <2>1. UNCHANGED m_devicesOnHold
    BY <1>5
  <2>2. \/ UNCHANGED device
        \/ pc[t] \notin Holding /\ \E e : device' = [device EXCEPT ![t] = e]
    BY <1>5 DEF Holding
  <2>3. \E q : pc' = [pc EXCEPT ![t] = q] /\ (q \in Holding <=> pc[t] \in Holding)
    BY <1>5 DEF Holding, Control
  <2> HIDE DEF Acquire, Moves, locals
  <2>4. /\ pc'[t] \in Holding <=> pc[t] \in Holding
        /\ pc[t] \in Holding => device'[t] = device[t]
        /\ \A u \in Creator \ {t} : pc'[u] = pc[u] /\ device'[u] = device[u]
    BY <2>2, <2>3 DEF TypeInv, TypeOK
  <2> QED BY <2>1, <2>4 DEF Holders
<1>6. ASSUME NEW v \in Volume, EbsAttached(v) \/ EbsDetached(v) \/ Taken(v) \/ Released(v)
      PROVE  UNCHANGED m_devicesOnHold /\ Holders(d)' = Holders(d)
  BY <1>6 DEF EbsAttached, EbsDetached, Taken, Released, locals, Holders
<1>7. ASSUME Tick \/ UNCHANGED vars
      PROVE  UNCHANGED m_devicesOnHold /\ Holders(d)' = Holders(d)
  BY <1>7 DEF Tick, vars, locals, Holders
<1>8. CASE UNCHANGED m_devicesOnHold /\ Holders(d)' = Holders(d)
  BY <1>1, <1>8
<1> QED BY <1>3, <1>4, <1>5, <1>6, <1>7, <1>8 DEF Next

\* A name is on hold as often as there are creators that work with it: no creator
\* gives back another's hold, however many have chosen the same name.
THEOREM HoldsAreCounted ==
  ASSUME IsFiniteSet(Creator)
  PROVE  Spec => []HoldsCounted
<1>1. Init => HoldsCounted
  <2> SUFFICES ASSUME Init, NEW d \in Device
               PROVE  Places(m_devicesOnHold, d) = {} /\ Holders(d) = {}
    BY FS_EmptySet DEF HoldsCounted, Places, Holders
  <2> QED BY DEF Init, Places, Holders, Holding
<1>2. TypeInv /\ HoldsCounted /\ [Next]_vars => (TypeInv /\ HoldsCounted)'
  BY NextType, NextCounted
<1> QED BY <1>1, <1>2, InitType, PTL DEF Spec
=============================================================================
