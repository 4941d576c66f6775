------------------------------- MODULE Provision -------------------------------
(***************************************************************************)
(* Volumes::acquire in detail: how the createDisk_handler threads choose   *)
(* a device name and a mount point, and how they wait for EC2.             *)
(*                                                                         *)
(* VolumePool takes each wait of acquire as one step that succeeds or      *)
(* fails; here are the tries, the list m_devicesOnHold of the names that   *)
(* are chosen and not yet visible, and the names that two creators choose  *)
(* at once.  A creator makes one volume, which bears the creator's name.   *)
(* EC2 refuses to attach two volumes under one device name of an instance. *)
(***************************************************************************)
EXTENDS Integers, Sequences, FiniteSets

CONSTANTS
  Creator,      \* the createDisk_handler threads
  Older,        \* idle volumes of the list, attached and mounted before
  OlderDevice,  \* OlderDevice[v]: the device name of v
  LastDevice,   \* the device names are 1 .. LastDevice, for xvdb to xvdz
  MaxTries,     \* the polls of attach and the tries of del (15)
  MaxMounts,    \* the tries of mount after the first (5)
  MaxTime       \* bound: the seconds that matter

Volume == Creator \cup Older
Device == 1 .. LastDevice
NoDevice == 0

ASSUME NameAssumption ==
  /\ LastDevice \in Nat \ {0}
  /\ Creator \cap Older = {}
  /\ OlderDevice \in [Older -> Device]
  /\ \A u, v \in Older : OlderDevice[u] = OlderDevice[v] => u = v
ASSUME TriesAssumption == MaxTries \in Nat /\ MaxMounts \in Nat /\ MaxTime \in Nat

VARIABLES
  pc,               \* pc[t]: where creator t is
  seen,             \* seen[t]: the device names t read from lsblk
  device,           \* device[t]: v.device of t
  mountPoint,       \* mountPoint[t]: v.mountPoint of t, the second it was drawn in
  retry,            \* retry[t]: the counter of the loop t is in
  m_devicesOnHold,  \* the list of names on hold
  ebs,              \* ebs[v]: EC2's state of v
  ebsDevice,        \* ebsDevice[v]: the name v was last attached under
  mounts,           \* the mounts made by creators: [by, volume, at]
  status,           \* status[v]: of v's record in m_volumes
  clock             \* time(NULL)

locals == <<seen, device, mountPoint, retry>>
ec2Vars == <<ebs, ebsDevice>>
vars == <<pc, locals, m_devicesOnHold, ec2Vars, mounts, status, clock>>

-----------------------------------------------------------------------------
(* The machine and EC2.                                                    *)

\* What lsblk shows for certain, and the names EC2 takes for used.
Visible == {ebsDevice[v] : v \in {u \in Volume : ebs[u] = "attached"}}
InUse == {ebsDevice[v] : v \in {u \in Volume : ebs[u] \in {"attaching", "attached", "detaching"}}}

Moves(t, p, q) == pc[t] = p /\ pc' = [pc EXCEPT ![t] = q]

Becomes(v, s) == ebs' = [ebs EXCEPT ![v] = s]

Elements(s) == {s[i] : i \in DOMAIN s}

\* remove_element: the first equal one goes.
WithoutFirst(s, d) ==
  IF d \notin Elements(s) THEN s
  ELSE LET i == CHOOSE k \in DOMAIN s : s[k] = d /\ \A j \in 1 .. k - 1 : s[j] # d
       IN [j \in 1 .. Len(s) - 1 |-> IF j < i THEN s[j] ELSE s[j + 1]]

\* Mutant of Chosen: the loop's variable is read after its end.
ChosenPast(used) ==
  IF Device \subseteq used THEN LastDevice + 1
  ELSE CHOOSE d \in Device \ used : \A e \in Device \ used : d <= e

\* The first name that is neither visible nor on hold; the last when none is.
Chosen(used) ==
  IF Device \subseteq used THEN LastDevice
  ELSE CHOOSE d \in Device \ used : \A e \in Device \ used : d <= e

-----------------------------------------------------------------------------
(* 1) The device and the mount point.                                      *)

\* A device that is being attached or detached may show or not.
ReadLsblk(t) ==
  /\ Moves(t, "off", "listed")
  /\ \E S \in SUBSET InUse : seen' = [seen EXCEPT ![t] = Visible \cup S]
  /\ UNCHANGED <<device, mountPoint, retry, m_devicesOnHold, ec2Vars, mounts, status, clock>>

GetDevice(t) ==
  /\ Moves(t, "listed", "chosen")
  /\ device' = [device EXCEPT ![t] = Chosen(seen[t] \cup Elements(m_devicesOnHold))]
  /\ seen' = [seen EXCEPT ![t] = {}]
  /\ UNCHANGED <<mountPoint, retry, m_devicesOnHold, ec2Vars, mounts, status, clock>>

\* push_back, and randomString, which is seeded with the second.
HoldDevice(t) ==
  /\ Moves(t, "chosen", "create")
  /\ m_devicesOnHold' = Append(m_devicesOnHold, device[t])
  /\ mountPoint' = [mountPoint EXCEPT ![t] = clock]
  /\ UNCHANGED <<seen, device, retry, ec2Vars, mounts, status, clock>>

-----------------------------------------------------------------------------
(* 2) create: it polls until it reads "available".                         *)

CreateVolume(t) ==
  /\ Moves(t, "create", "attach")
  /\ Becomes(t, "available")
  /\ UNCHANGED <<locals, m_devicesOnHold, ebsDevice, mounts, status, clock>>

\* The error text is polled as an id, for ever unless a poll is misread.
CreateFails(t) ==
  /\ Moves(t, "create", "spin")
  /\ UNCHANGED <<locals, m_devicesOnHold, ec2Vars, mounts, status, clock>>

CreateMisread(t) ==
  /\ Moves(t, "spin", "attach")
  /\ UNCHANGED <<locals, m_devicesOnHold, ec2Vars, mounts, status, clock>>

-----------------------------------------------------------------------------
(* 3) attach, and del when it fails.                                       *)

AttachAccepted(t) ==
  /\ Moves(t, "attach", "attaching")
  /\ ebs[t] = "available" /\ device[t] \notin InUse
  /\ Becomes(t, "attaching")
  /\ ebsDevice' = [ebsDevice EXCEPT ![t] = device[t]]
  /\ UNCHANGED <<locals, m_devicesOnHold, mounts, status, clock>>

\* Mutant of AttachRefused: the result of the call is not looked at.
AttachRefusedUnread(t) ==
  /\ Moves(t, "attach", "mount")
  /\ UNCHANGED <<locals, m_devicesOnHold, ec2Vars, mounts, status, clock>>

AttachRefused(t) ==
  /\ Moves(t, "attach", "del")
  /\ UNCHANGED <<locals, m_devicesOnHold, ec2Vars, mounts, status, clock>>

\* Mutant of Counts: the retry++ is missing.
CountsNothing(t, n) == UNCHANGED retry

\* From MaxTries + 1 on the counter is never MaxTries again.
Counts(t, n) == retry' = [retry EXCEPT ![t] = IF n > MaxTries THEN MaxTries + 1 ELSE n]

\* describe-volumes answers: the counter is looked at before the answer.
PollAttached(t) ==
  /\ Moves(t, "attaching", IF retry[t] = MaxTries THEN "del" ELSE "mount")
  /\ ebs[t] = "attached"
  /\ retry' = [retry EXCEPT ![t] = 0]
  /\ UNCHANGED <<seen, device, mountPoint, m_devicesOnHold, ec2Vars, mounts, status, clock>>

PollAttaching(t) ==
  /\ ebs[t] # "attached"
  /\ \/ retry[t] = MaxTries /\ Moves(t, "attaching", "del") /\ retry' = [retry EXCEPT ![t] = 0]
     \/ retry[t] # MaxTries /\ Moves(t, "attaching", "attaching") /\ Counts(t, retry[t] + 1)
  /\ UNCHANGED <<seen, device, mountPoint, m_devicesOnHold, ec2Vars, mounts, status, clock>>

\* A failed call counts before the test and again after it.
PollFails(t) ==
  /\ \/ retry[t] + 1 = MaxTries /\ Moves(t, "attaching", "del") /\ retry' = [retry EXCEPT ![t] = 0]
     \/ retry[t] + 1 # MaxTries /\ Moves(t, "attaching", "attaching") /\ Counts(t, retry[t] + 2)
  /\ UNCHANGED <<seen, device, mountPoint, m_devicesOnHold, ec2Vars, mounts, status, clock>>

Attach(t) ==
  AttachAccepted(t) \/ AttachRefused(t) \/ PollAttached(t) \/ PollAttaching(t) \/ PollFails(t)

\* del: what it returns is only logged.
DeleteWorks(t) ==
  /\ Moves(t, "del", "free")
  /\ ebs[t] = "available" /\ Becomes(t, "deleted")
  /\ retry' = [retry EXCEPT ![t] = 0]
  /\ UNCHANGED <<seen, device, mountPoint, m_devicesOnHold, ebsDevice, mounts, status, clock>>

DeleteFails(t) ==
  /\ \/ retry[t] = MaxTries /\ Moves(t, "del", "free") /\ retry' = [retry EXCEPT ![t] = 0]
     \/ retry[t] < MaxTries /\ Moves(t, "del", "del") /\ Counts(t, retry[t] + 1)
  /\ UNCHANGED <<seen, device, mountPoint, m_devicesOnHold, ec2Vars, mounts, status, clock>>

-----------------------------------------------------------------------------
(* 4) mount, up to MaxMounts + 1 times.                                    *)

\* The directory is there, is no mount point and is empty.
MountChecks(t) ==
  /\ Moves(t, "mount", "mountfs")
  /\ \A m \in mounts : m.at # mountPoint[t]
  /\ UNCHANGED <<locals, m_devicesOnHold, ec2Vars, mounts, status, clock>>

\* mount(2) of the device, which stands for the volume attached under its name.
Mounted(t, v) ==
  /\ ebs[v] = "attached" /\ ebsDevice[v] = device[t]
  /\ mounts' = mounts \cup {[by |-> t, volume |-> v, at |-> mountPoint[t]]}

MountWorks(t) ==
  /\ retry[t] < MaxMounts
  /\ Moves(t, "mountfs", "add")
  /\ \E v \in Volume : Mounted(t, v)
  /\ retry' = [retry EXCEPT ![t] = 0]
  /\ UNCHANGED <<seen, device, mountPoint, m_devicesOnHold, ec2Vars, status, clock>>

\* A new mount point is drawn, at once.
MountFails(t) ==
  /\ retry[t] < MaxMounts
  /\ pc[t] \in {"mount", "mountfs"} /\ pc' = [pc EXCEPT ![t] = "mount"]
  /\ mountPoint' = [mountPoint EXCEPT ![t] = clock]
  /\ retry' = [retry EXCEPT ![t] = @ + 1]
  /\ UNCHANGED <<seen, device, m_devicesOnHold, ec2Vars, mounts, status, clock>>

\* The last try is a failure whether or not it mounted.
MountGivenUp(t) ==
  /\ retry[t] = MaxMounts
  /\ \/ Moves(t, "mountfs", "detach") /\ \E v \in Volume : Mounted(t, v)
     \/ Moves(t, "mount", "detach") /\ UNCHANGED mounts
     \/ Moves(t, "mountfs", "detach") /\ UNCHANGED mounts
  /\ retry' = [retry EXCEPT ![t] = 0]
  /\ UNCHANGED <<seen, device, mountPoint, m_devicesOnHold, ec2Vars, status, clock>>

\* detach: accepted, then polled to the end or given up; or refused.
Detach(t) ==
  /\ Moves(t, "detach", "free")
  /\ (ebs[t] = "attached" /\ Becomes(t, "detaching")) \/ UNCHANGED ebs
  /\ UNCHANGED <<locals, m_devicesOnHold, ebsDevice, mounts, status, clock>>

Mount(t) == MountChecks(t) \/ MountWorks(t) \/ MountFails(t) \/ MountGivenUp(t) \/ Detach(t)

-----------------------------------------------------------------------------
(* 5, 6) Synchronized, the volume is added, and its device name given back *)
(* whether or not the list could be written.                               *)

AddVolume(t) ==
  /\ Moves(t, "add", "free")
  /\ status' = [status EXCEPT ![t] = "idle"]
  /\ UNCHANGED <<locals, m_devicesOnHold, ec2Vars, mounts, clock>>

\* Mutant of FreeDevice: all equal names are given back.
FreeDeviceEqual(t) ==
  /\ Moves(t, "free", "done")
  /\ m_devicesOnHold' = SelectSeq(m_devicesOnHold, LAMBDA d : d # device[t])
  /\ UNCHANGED <<locals, ec2Vars, mounts, status, clock>>

FreeDevice(t) ==
  /\ Moves(t, "free", "done")
  /\ m_devicesOnHold' = WithoutFirst(m_devicesOnHold, device[t])
  /\ UNCHANGED <<locals, ec2Vars, mounts, status, clock>>

Proceeds(t) ==
  \/ ReadLsblk(t) \/ GetDevice(t) \/ HoldDevice(t) \/ CreateVolume(t) \/ CreateFails(t)
  \/ Attach(t) \/ DeleteWorks(t) \/ DeleteFails(t) \/ Mount(t) \/ AddVolume(t) \/ FreeDevice(t)

Acquire(t) == Proceeds(t) \/ CreateMisread(t)

-----------------------------------------------------------------------------
(* What happens meanwhile.                                                 *)

EbsAttached(v) ==
  /\ ebs[v] = "attaching" /\ Becomes(v, "attached")
  /\ UNCHANGED <<pc, locals, m_devicesOnHold, ebsDevice, mounts, status, clock>>

EbsDetached(v) ==
  /\ ebs[v] = "detaching" /\ Becomes(v, "available")
  /\ mounts' = {m \in mounts : m.volume # v}
  /\ UNCHANGED <<pc, locals, m_devicesOnHold, ebsDevice, status, clock>>

\* Volumes::release marks the record of an idle volume.  The record stays, with its
\* device, until remove drops it: "taken" stands for inprogress and all after it.
Taken(v) ==
  /\ status[v] = "idle" /\ status' = [status EXCEPT ![v] = "taken"]
  /\ UNCHANGED <<pc, locals, m_devicesOnHold, ec2Vars, mounts, clock>>

\* It then unmounts the volume and detaches it, which EC2 may refuse.
Released(v) ==
  /\ status[v] = "taken" /\ ebs[v] = "attached"
  /\ Becomes(v, "detaching") \/ UNCHANGED ebs
  /\ mounts' = {m \in mounts : m.volume # v}
  /\ UNCHANGED <<pc, locals, m_devicesOnHold, ebsDevice, status, clock>>

Tick ==
  /\ clock < MaxTime /\ clock' = clock + 1
  /\ UNCHANGED <<pc, locals, m_devicesOnHold, ec2Vars, mounts, status>>

Init ==
  /\ pc = [t \in Creator |-> "off"]
  /\ seen = [t \in Creator |-> {}]
  /\ device = [t \in Creator |-> NoDevice]
  /\ mountPoint = [t \in Creator |-> 0]
  /\ retry = [t \in Creator |-> 0]
  /\ m_devicesOnHold = <<>>
  /\ ebs = [v \in Volume |-> IF v \in Older THEN "attached" ELSE "absent"]
  /\ ebsDevice = [v \in Volume |-> IF v \in Older THEN OlderDevice[v] ELSE NoDevice]
  /\ mounts = {}
  /\ status = [v \in Volume |-> IF v \in Older THEN "idle" ELSE "none"]
  /\ clock = 0

Next ==
  \/ \E t \in Creator : Acquire(t)
  \/ \E v \in Volume : EbsAttached(v) \/ EbsDetached(v) \/ Taken(v) \/ Released(v)
  \/ Tick

Spec == Init /\ [][Next]_vars

\* A creator goes on; the misread text and the clock are left to chance.
Fairness == \A t \in Creator : WF_vars(Proceeds(t))

FairSpec == Spec /\ Fairness

-----------------------------------------------------------------------------
(* Properties.                                                             *)

Control ==
  {"off", "listed", "chosen", "create", "spin", "attach", "attaching", "del", "mount", "mountfs",
   "detach", "add", "free", "done"}

EbsState == {"absent", "available", "attaching", "attached", "detaching", "deleted"}

TypeOK ==
  /\ pc \in [Creator -> Control]
  /\ seen \in [Creator -> SUBSET Device]
  /\ device \in [Creator -> Device \cup {NoDevice}]
  /\ mountPoint \in [Creator -> 0 .. MaxTime]
  /\ retry \in [Creator -> Nat]
  /\ m_devicesOnHold \in Seq(Device)
  /\ ebs \in [Volume -> EbsState]
  /\ ebsDevice \in [Volume -> Device \cup {NoDevice}]
  /\ mounts \subseteq [by : Creator, volume : Volume, at : 0 .. MaxTime]
  /\ status \in [Volume -> {"none", "idle", "taken"}]
  /\ clock \in 0 .. MaxTime

\* Where a creator has a name on hold.
Holding == Control \ {"off", "listed", "chosen", "done"}

\* HoldsCounted: a name is on hold as often as there are creators that work with
\* it, though two may have chosen the same and the first to end removes the first
\* equal one: no creator loses its hold by the end of another.
HoldsCounted ==
  \A d \in Device :
    Cardinality({i \in DOMAIN m_devicesOnHold : m_devicesOnHold[i] = d})
      = Cardinality({t \in Creator : pc[t] \in Holding /\ device[t] = d})

\* MountsOwn: what a creator mounts is the volume it has created, and never one
\* that another creator, or the daemon before, has attached under the same name.
MountsOwn == \A m \in mounts : m.volume = m.by

\* The device in v's record.
RecordDevice(v) == IF v \in Older THEN OlderDevice[v] ELSE device[v]

\* DevicesDistinct: no two idle records bear the same device name, and the volume of
\* each is attached under it, though names are chosen and put on hold in two steps,
\* and the last name is handed out when all are taken.  A taker's record keeps its
\* device, and a later idle record may bear that name.
DevicesDistinct ==
  \A v \in Volume :
    status[v] = "idle" =>
      /\ ebs[v] = "attached" /\ ebsDevice[v] = RecordDevice(v)
      /\ \A u \in Volume \ {v} : status[u] = "idle" => RecordDevice(u) # RecordDevice(v)

\* WaitsEnd: a creator whose volume was created ends and gives its name back;
\* unless its polls of attach have skipped the count at which it gives up.
WaitsEnd ==
  \A t \in Creator :
    pc[t] = "attach" ~> (pc[t] = "done" \/ (pc[t] = "attaching" /\ retry[t] > MaxTries))
=============================================================================
