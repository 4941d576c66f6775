# A TLA+ verification of volsd

volsd keeps a pool of EBS volumes ready, attached and mounted on its own EC2
instance, and hands one to every new web server that asks for it.  This
directory holds TLA+ models of its daemon and of the client program as the
daemon sees it, the TLC configurations that check them, and proofs for TLAPS.
Paths below are relative to the repository (`src/src/volumesd.cpp` is
`src/volumesd.cpp` of its tree; line numbers are of the modelled commit).

## 1. The system

| component | state | operations | who uses it |
|---|---|---|---|
| Volume pool (`Volumes.cpp`, handlers in `volumesd.cpp`) | `m_volumes`, a vector of records (id, status, attachedTo, mountPoint, device); the volumes file; `inProgressVolumes`; one static mutex `m` around `write_to_file` | `acquire`, `release`, `add`, `remove`, `update`, `del`, `load`, `remount` | main, and the threads `createDisk_handler`, `removeDisk_handler`, `clientDiskAquire_handler`, `clientDiskRelease_handler` |
| Dispatcher and ports (`volumesd.cpp`) | `portsArray` of ten ports with a status; a listening socket on port 9000; the process's descriptors | `volumesDispatcher_handler`, `get_available_port`, the socket part of `clientDiskAquire_handler` | clients |
| Snapshots (`Snapshots.cpp`) | `m_snapshots`, its file, `snapshotsOpPending` | `create_snapshot`, `update_snapshots`, `write_to_file`, `load`, `timeToSnapshot`, `latest` | main, `createSnapshot_handler`, `createDisk_handler` |
| Shutdown (`volumesd.cpp`) | six flags `...OpPending`, `sigterm`, `signalCount` | `signalHandler` | the operating system, all threads |
| Synchronization (`Sync.cpp`) | the date of the last synchronization in memory and in a file, `syncingOpPending`; a pass's copy of the list | `volumesSync_handler`, `setSyncTime`, `load`, `timeToSync` | main, SyncAll requests |
| Device names and retries (`Volumes.cpp`) | `m_devicesOnHold`, the counters of `attach`, `del` and the mount loop | `get_device`, `remove_element`, `randomString` | `acquire` |
| Client program (`volumesd-client.cpp`) | one volume | `disk_acquire`, `mount_vol`, `disk_release` | an instance's boot and end |
| Utilities, configuration, logger | none that decides anything | shell commands, files, parsing | everybody |

How they interact.  The **main** thread loads and remounts the volumes, starts
the dispatcher thread, and then, every ten seconds, compares the number of idle
volumes plus `inProgressVolumes` with `MaxIdleDisk`, and starts a creator or a
remover; it starts a snapshot maker or a synchronization when one is due.  The
**dispatcher** thread accepts one connection at a time; for a `DiskRequest` it
reserves a port, tells it to the client and starts a handler that listens there;
for a `DiskRelease` it starts a handler that drops the record.  All these threads
are detached and share the objects of `main` by reference, without locks except
for the mutex around the volumes file.  EC2 is reached by shell commands whose
results are polled.

What is hard in it:

* **unlocked sharing**: the vector of volumes, the vector of snapshots, the port
  array, the counter and the flags are each read and written by several threads;
  a search and the use of what it found are two accesses;
* **failure**: each AWS call can fail or come late; a client can go away at any
  moment; the daemon can be stopped between any two steps and starts again from
  its files; the machine can restart, and mounts are lost;
* **ordering**: the list changes before its file, a port is freed before its
  socket is closed, a client is told its port before the port is listened on,
  the flags of operations are set when their threads run, not when they start;
* **polls with an end**: a detach that takes too long is given up while EC2
  goes on with it; an attach counts a failed call twice and may count past the
  number at which it would give up;
* **names chosen early**: a device name is chosen before it is put on hold, and a
  snapshot's id is read before a volume is made of it.

What makes each component correct:

* pool: what is offered as idle is attached and mounted here, in memory and in
  the file, at any moment; the file follows the list; what a client was sent is
  detached here; what is listed as used was mounted by that client; a connected
  client gets an answer;
* ports: one client per port; a reserved port has a holder; each request is
  answered;
* snapshots: the list stays near its bound, its front exists when it is erased,
  no listed snapshot has been deleted, and what a creator takes for the latest
  is there when it is used;
* synchronization: main runs one pass at a time, a pass reaches every volume that
  stays where it was, a restart never puts a pass off;
* device names: each creator mounts its own volume, no two idle records bear one
  name, and each creator gives back one hold;
* shutdown: nothing starts once the flags are looked at, a lone operation is
  waited for, the blocked dispatcher is woken.

`PROJECT.json` lists the hazards line by line, with the properties that speak of
each.

## 2. The modules

```
VolumePool ──┬── VolumePoolInv ──┬── VolumePoolLife ───── MCVolumePool   (TLC)
             │                   │      │  Life == INSTANCE VolumeLife
             │                   │      └── (with VolumePoolSafety) VolumePoolLifeProofs
             │                   └── VolumePoolProofs ── VolumePoolSafety
             └── SyncPool ──┬── MCSyncPool
                            └── (with VolumePoolProofs) SyncPoolProofs
Dispatcher ───── DispatcherLease ──┬── MCDispatcher
                  │                └── DispatcherProofs
                  └  Lease == INSTANCE PortLease
Snapshots ────── SnapshotUse ──┬── MCSnapshots
                               └── SnapshotsProofs
Provision ───┬── MCProvision
             └── ProvisionProofs
Shutdown ────┬── MCShutdown
             └── ShutdownProofs
```

`VolumePool`, `Dispatcher`, `Snapshots`, `Provision` and `Shutdown` each model a
component, the whole of its handlers, every state change and every return path
in the order of the code.  `SyncPool` and `SnapshotUse` compose a component with
the threads that use it.  `VolumeLife` is what the pool promises, `PortLease` what the
dispatcher does.  Thread ids are
values of CONSTANT sets; an id is one thread's lifetime, so the size of the set is
the number of threads of a kind in a behaviour.  Each module names what it leaves
to the others.

### VolumePool

State: `m_volumes`, `volumeFile`, `inProgressVolumes` as in the code; `pc`, `vid`,
`reg` are a thread's place, its volume, and the index or counter value it has
read; `wr` and `buf` are its progress with `write_to_file` and its stream's
buffer; `ebs` and `mountedAt` are EC2 and the mount tables; `cli`, `reply`, `ack`
the clients.

| code | actions |
|---|---|
| `Volumes::release`, `get_idle_volume`, `detach` | `GetIdleVolume`, `NoIdleVolume`, `ReadRecord`, `MarkTaken`, `Umount`, `DetachIssue`, `DetachRefused`, `DetachDone`, `DetachTimeout`, `MarkUndetached` |
| `clientDiskAquire_handler` | `SendVolume`, `AckOK`, `AckFailed`, `ConnectionLost`, `DeleteTaken` |
| `removeDisk_handler`, `clientDiskRelease_handler` | `DeleteTaken`, `DropRecord`, `CheckReleased` |
| `createDisk_handler`, `Volumes::acquire`, `create`, `attach`, `mountfs`, `add` | `LoadCounter`, `StoreCounter`, `CreateVolume`, `CreateFails`, `CreateMisread`, `AttachDone`, `AttachFails`, `DeleteUnattached`, `MountDone`, `MountGivenUp`, `AddVolume` |
| `update`, `remove`, `write_to_file` | `Updated`, `Erased`, `Stores`; `OpenFile`, `OpenFails`, `CopyRecords`, `CloseFile` |
| main's loop, `load`, `remount` | `SpawnCreator`, `SpawnRemover`, `LoadFile`, `RemountKeeps`, `RemountMounts`, `RemountDrops`, `RemountEnds` |
| an abrupt stop | `Crash`, with or without a restart of the machine |
| `volumesd-client` | the `Client...` actions, `NotifyLost` |
| EC2 | `EbsDetached`, at any time after a detach was issued |

Atomicity.  A step is at most one access to the shared vector or counter: a scan,
a read of one record, a push, an erase, an assignment.  `inProgressVolumes++` is a
load and a store.  The write of the file is three steps under the mutex, and a
stop may fall between any two.  A thread that has changed the list writes it out
before it goes on (`Moves` needs `wr[t] = "no"`), as in the code, where
`write_to_file` is the last call of `update`, `remove` and `add`.

### VolumeLife and VolumePoolLife

`VolumeLife` has no threads, files or stops: a volume may be *offered*, once; when it
leaves the offer, or is given up before, it is *spent* and is not offered again; a
client is *given* one volume, and only a spent one.  `VolumePoolLife` maps
`VolumePool` to it: `offered` is what the list, the file, or a copy on its way to the
file calls idle (a restart brings back what the file says, so leaving the list
alone withdraws nothing); `spent` is what exists, is offered nowhere and is not a
creator's; `given` is `reply`.  A push is an `Offer`; the last write that forgets a
volume is its `Retire`, and so is a creator's failure; a stop retires several at
once, what was on the list but not in the file yet; `SendVolume` is a `Give`; all
else stutters.  `OfferedOnce` is `Life!Spec`.

### SyncPool

`VolumePool` with the passes of `volumesSync_handler` and the date.

| code | actions |
|---|---|
| main's third duty, `timeToSync` | `MainDecides`, `MainStarts`: the flag is set by main, after it was looked at |
| a SyncAll request | `RequestSync`, which does not look at the flag |
| `volumesSync_handler` | `CopyList`, `Synchronize` once per record of the copy, `EndLoop`, `ClearFlag` |
| `setSyncTime` | `SetTime` (the memory), `OpenDate` (the file is truncated), `PutDate` (the stream takes the date that is in memory then), `CloseDate` |
| `Sync::load` | in `LoadBoth`, with the pool's `LoadFile` |

A stop and a start are joint steps of both parts (`CrashBoth`, `LoadBoth`), every
other step of the pool leaves the passes alone (`PoolStep`).  An rsync is one step;
it writes to the volume when the volume is mounted where the record said (`Leads`),
and to an ordinary directory or nowhere otherwise; what it returns is dropped by
the code.

### Dispatcher

`status` is `portsArray`; `fd` says what each descriptor number stands for.  A
`Socket` keeps its number after `close_socket`, and its destructor closes that
number again, so descriptors are numbers and what a number stands for is looked
up when it is used.  `dpc`, `new_sock`, `cur` are the dispatcher's locals, `hpc`,
`server`, `s`, `queue`, `peer` the handlers', `cpc`, `target` the clients'.  A
listening socket stays alive while a thread is blocked in `accept` on it.
`aborted` records that an exception has left a thread, which ends the process.
`Overflow` is the port of number -1 that `get_available_port` returns when all are
reserved: the handler listens on port 65535 and later writes before the array,
which may go unnoticed or end the process, and both are modelled.

### PortLease and DispatcherLease

`PortLease` has no threads, sockets or descriptors: a client asks once, and is
reserved a port that is neither lent nor lost, or is refused when there is none;
a reservation is settled before the next is made, by a grant, or by a loss with a
client that could not be told; what was granted is given back and never lost.
`DispatcherLease` maps `Dispatcher` to it.  The array says only that a port is
reserved; for whom is known to the dispatcher until it has started the handler and
to the handler until it clears the mark (`Has`), and a port that is marked and
known to nobody is lost.  The choice of a port is a `Reserve` or a `Refuse`, the
start of the handler a `Grant`, the reply that fails a `Lose`, the clearing of the
mark a `GiveBack`, an exception that leaves a thread a `Stop`; all else stutters,
every close of a descriptor among it.  `LeaseKept` is `Lease!Spec`.

### Snapshots

`StartMaker` is main's condition, a disjunction in the code, and the flag it
sets.  A maker is `TakeTime`, `CallCreate`, `PollEnds`, `PushBack`, `CheckSize`,
`ReadHead`, `EraseHead`, `DeleteHead`, `OpenFile`, `CopyLines`, `CloseFile`,
`ClearFlag`: the id to delete is read, the front is erased, and then the snapshot
is deleted, and other makers may come in between.  The file is written without a
lock: a stream that is closed writes its lines over the beginning of whatever is
there (`Overwritten`).  `Load` removes one snapshot when there are too many.

`SnapshotUse` adds the creators.  `createDisk_handler` reads `latest()`, which looks
whether the list is empty and then reads its last element (`FindsNone`,
`FindsSome`, `ReadLatest`), and `create-volume` uses the id later (`CreateVolume`).
`left` is a counter for the property: the erasures that come before the id that
was read is at the front.

### Provision

`acquire` in detail, by several creators: `ReadLsblk`, `GetDevice`, `HoldDevice`
(choose a name; put it on hold, and draw a mount point); `CreateVolume`,
`CreateFails`, `CreateMisread`; `AttachAccepted`, `AttachRefused`, `PollAttached`,
`PollAttaching`, `PollFails` (the counter is looked at between the call and its
answer, and an answer that is neither ends no loop); `DeleteWorks`, `DeleteFails`;
`MountChecks`, `MountWorks`, `MountFails`, `MountGivenUp`, `Detach`; `AddVolume`,
`FreeDevice`.  A creator makes one volume, which bears the creator's name.
`status` is that of a volume's record: `Volumes::release` marks it (`Taken`), then
unmounts and detaches the volume (`Released`); the record stays in `m_volumes` with
its device until `remove` drops it (`update` changes no device, `Volumes.cpp:476-486`),
while EC2 may give the name to a later volume.  `"taken"` stands for `inprogress` and
all that comes after it, removal included.  A
mount point is the second in which it was drawn, because `randomString` seeds
itself with the time.  `lsblk` shows a device that is being attached or detached,
or does not.  `Chosen` returns the last name when all are taken, as the code's loop
does.  EC2 refuses a second volume under a name in use.  `retry` stops at
`MaxTries + 1`: from there on the test for `MaxTries` never holds again.

### Shutdown

`signalHandler` interrupts main wherever it is and never returns to it; it
connects to the dispatcher to wake it, joins it, and looks at five of the six
flags in turn.  `MainRaises` and `MainStarts` are two steps, since main sets two of
the flags before it starts the thread; the other flags are set by `Begins`, when
the thread runs.  A later signal ends the process at once (`SignalAgain`).  The
model assumes that the first signal is delivered to the main thread, and begins
when the dispatcher's listening socket is bound.

## 3. The runs

All configurations have `CHECK_DEADLOCK FALSE`: threads, clients and signals are
bounded, and a state in which all of them are through is the normal end of a
behaviour, as is the process's exit.

| run | instance | what it shows |
|---|---|---|
| `pool_serve` | 2 clients, 1 releaser, 2 loaded volumes, the file may be impossible to open | `TypeOK`, `UsedWasMounted`, `SentIsDetached`, `FilePersisted` |
| `pool_crash` | 1 client, creator, remover, releaser each, 2 volumes of which 1 loaded, 1 stop, fairness | `IdleReady`, `CrashSafe`, the inductive invariant `ReadyInv` of the proofs, and `Answered` as liveness |
| `pool_reboot` | the same without fairness, and the machine may restart with the daemon and lose the mounts | `LedgerInv`, the part of that invariant that outlives a restart, `FilePersisted`, `SentIsDetached`, and the refinement `OfferedOnce` |
| `sync_pass` | 2 periodic passes, 1 SyncAll, 1 remover, 2 loaded volumes, 1 stop with a restart of the machine, files may be impossible to open | `Overlap`, `DateNotAhead`, `PassReaches` |
| `dispatch_ports` | 3 clients (1 releases), 1 port, 3 descriptors, clients may die | `TypeOK`, `PortsExclusive`, `PortsAccounted`, and the refinement `LeaseKept` |
| `dispatch_fair` | 2 clients, 1 port, 4 descriptors, clients may die, fairness | `Dispatched` |
| `snap_trim` | 3 makers, 1 creator, maximum 1, 1 stop, the file may be impossible to open | `TypeOK`, `Bounded`, `HeadExists`, `ListedExist`, `LatestUsable` |
| `provision` | 2 creators, 1 older volume, 2 device names, 2 polls, 2 mounts, 2 seconds, fairness | `TypeOK`, `HoldsCounted`, `MountsOwn`, `DevicesDistinct`, `WaitsEnd` |
| `stop_all` | 6 operations of 5 kinds, 2 signals, fairness | `TypeOK`, `NoneStarted`, `LoneAwaited`, `JoinEnds` |
| `used_alone`, `spares_mounted`, `stop_graceful` | the smallest instance that shows it | three claims of comments and log lines that the code does not keep (section 6) |

Why the bounds are enough to be worth something.  Every race in the code is
between two threads, or between two and a thread that moves the list under them:
two takers and one more thread that erases or pushes make each of them happen, and
two volumes are needed for an index to point at another volume than before.  One
port makes the array run out with the second client; three clients let a port be
given back and taken again while a third waits.  Three descriptors are fewer than
three clients could use, so numbers are reused, which is what the second close
needs; in `dispatch_fair` two clients never wait for one of four.  Three makers with a maximum of one let two overtake a third, and empty the list under
a creator that has found it filled.  One stop
suffices, because a restarted daemon starts no thread that was there before; two
volumes suffice to make `remount` skip one, and `pool_reboot` has the threads of
`pool_crash` on both sides of it.  Six operations contain every kind that
main starts, two kinds that the dispatcher starts and two operations of one kind;
the release handler differs from acquire's in this model by its name only.
Two device names, one of them in use, make two creators choose the same one, and
run out of names while one is on hold; two polls let the counter both meet its
limit and jump over it; two mounts are a first and a last try.  In `sync_pass` two
passes of main and one on request are the fewest of which two overlap in each of
the ways the shared flag allows; the remover changes the list under a copy, and the
restart leaves one volume of the copy mounted and one not.  Clients and creators
are left out there: what they change of a volume under a pass, its place in the
list and its mount, the remover and the restart change too.  The
proofs of section 5 remove the bounds for the properties they cover.

Symmetry is used for clients, makers and main's passes, in runs without liveness.

Named bounds: `MaxCrashes` (stops), `MaxTime` (ticks of the snapshot clock),
`MaxSignals`, and the sizes of the sets of threads; in `Provision` and `SyncPool`
`MaxTime` too is the last tick of their clock.  `MaxIdleDisk`, `MaxNumber`,
`Freq`, `Interval` and `NPorts` are the program's own configuration, and
`MaxTries`, `MaxMounts` and `LastDevice` its own numbers, made small.

## 4. Fairness

* `VolumePool!Fairness`: a thread that is to write the file does so when it can get
  the mutex (`WriteStep` of every thread, since another one may hold it); the
  handler of a client takes its next step; a client reads what it was sent or
  that it was disconnected.  Nothing is assumed of EC2, of other threads or of the
  client otherwise: every poll of the code on this path ends after a fixed number
  of tries, which is why `DetachTimeout` is always possible.  The threads are
  kernel threads, and none waits for another except for the mutex; in `pool_crash`,
  which checks `Answered`, a client's handler shares it with a creator, a remover and
  a releaser, and a stop may come at any time.
* `Dispatcher!FairSpec`: the dispatcher and the handlers run, and a client that has
  not died runs its program.  The last is needed: the dispatcher reads requests
  in its only thread, and a client that connects and says nothing stops it.
* `Provision!FairSpec`: each creator goes on.  That a creator whose `create-volume`
  failed gets out of its poll by a misread text is left to chance, and so are the
  clock and EC2: an attach may never come to an end, and the code's counter must
  end the wait.  `WaitsEnd` therefore excepts the one case in which the counter has
  jumped over its limit.
* `Shutdown!FairSpec`: `signalHandler`'s steps, the dispatcher's test and its read of
  an accepted connection are taken, operations come to an end, and a connected
  client says something or goes away.  No client need ever come: it is the
  connection made by `signalHandler` that wakes `accept`.

Stuttering clients can never be waited for in `Answered`: a client whose connection
breaks is allowed to leave, and that is one of the answers.

## 5. The proofs

All are checked by TLAPS, for any sets of volumes, clients and threads, any
configuration and any number of stops.  `VolumePool` takes a mount point for the volume
mounted there (section 7), so `OfferedIsReady`, `FileIsSafe` and `ReadyAlways` speak of
a daemon whose creators have not drawn one mount point twice.

| theorem | statement | assumptions |
|---|---|---|
| `VolumePoolProofs!TypeCorrect` | `Spec => []TypeOK` | none |
| `VolumePoolSafety!OfferedIsReady` | `Spec => []IdleReady` | the file can be opened (`~OpenMayFail`) and the machine does not restart (`~MayReboot`) |
| `VolumePoolSafety!FileIsSafe`, `ReadyAlways` | `Spec => []CrashSafe`, `Spec => []ReadyInv` | the same two |
| `VolumePoolSafety!LedgerAlways` | `Spec => []LedgerInv` | the file can be opened |
| `VolumePoolLifeProofs!PoolKeepsPromise` | `Spec => Life!Spec`, that is, `OfferedOnce` | the file can be opened |
| `VolumePoolProofs!FileFollowsList` | `Spec => []FilePersisted` | none |
| `VolumePoolLifeProofs!SentCanBeAttached` | `Spec => []SentIsDetached` | none |
| `VolumePoolLifeProofs!UsedIsMounted` | `Spec => []UsedWasMounted` | none |
| `DispatcherProofs!DispatcherTyped`, `PortsAreExclusive`, `PortsAreAccounted` | `Spec => []TypeOK`, `[]PortsExclusive`, `[]PortsAccounted` | none |
| `DispatcherProofs!DispatcherKeepsPromise` | `Spec => Lease!Spec`, that is, `LeaseKept` | none |
| `SnapshotsProofs!SnapshotsTyped`, `FrontExists` | `Spec => []TypeOK`, `Spec => []HeadExists` | none |
| `SnapshotsProofs!ListIsBounded`, `ListedAreLeft` | `Spec => []Bounded`, `Spec => []ListedExist` | none; both properties speak of behaviours up to the first stop |
| `SnapshotsProofs!LatestIsUsable` | `UseSpec => []LatestUsable` | none; the same |
| `ProvisionProofs!ProvisionTyped`, `DevicesAreDistinct`, `CreatorsMountTheirOwn` | `Spec => []TypeOK`, `[]DevicesDistinct`, `[]MountsOwn` | none |
| `ProvisionProofs!HoldsAreCounted` | `Spec => []HoldsCounted` | there are finitely many creators |
| `SyncPoolProofs!DateNeverAhead` | `SyncSpec => []DateNotAhead` | none |
| `SyncPoolProofs!PassesReach` | `SyncSpec => []PassReaches` | none |
| `SyncPoolProofs!PassesKeepPool` | `SyncSpec => Spec` of `VolumePool`, so that its theorems hold of the composition | none |
| `SyncPoolProofs!PassesOverlap` | `SyncSpec => []Overlap` | there are finitely many passes |
| `ShutdownProofs!ShutdownTyped`, `NothingStarts`, `LoneIsAwaited` | `Spec => []TypeOK`, `NoneStarted`, `LoneAwaited` | none |

The arguments:

* **What is offered is ready** (`ReadyInv`, in `VolumePoolInv`).  `IdleReady` is not
  inductive: a stop makes the list what the file says, and the file is what a
  thread has copied from the list.  So the invariant speaks of everything that
  offers a volume, the list, the file and the copies on their way (`Offered`), and
  says what each kind of thread may hold: a taker's volume is offered nowhere once
  its mark is written (`TakenInv`), which is before it unmounts; a creator's volume
  is known to nobody (`FreshInv`) and is ready when it is added (`AddInv`); what a
  client has or gives back is not offered (`GivenInv`); and everything known was
  created (`CreatedInv`), so that a new volume is new.  That two takers may get the
  same volume does not hurt this invariant, and the proof shows why: each marks
  the record before it unmounts.  `ReadyInv` has two parts, proved one after the
  other.  `LedgerInv` says who holds what.  It needs no mounts and so outlives a
  restart of the machine, in which `remount` mounts again what it finds unmounted, or
  drops it: main is alone until start-up is over (`StartInv`), and the file offers
  nothing that has left the list, except what main has dropped and not written yet
  (`OfferedListed`).  `OfferedReady` says that all that is offered is ready.  Both
  assumptions are needed: with a write that failed the file still offers what was
  given away, and a restart takes the mounts away (`spares_mounted`).
* **The file follows the list** (`FileInv`).  A list changes before the mutex is
  taken, so an older copy could be feared to be written last.  It is not: the copy
  is taken under the mutex too, and a thread that has changed the list is still
  due.  `FileInv` says so of the last copy when nobody is due, and with `MutexInv`
  and `DownInv` it is inductive.  No assumption is needed, as `FilePersisted` itself
  speaks of a daemon whose last write did not fail: what a failed write left out, the
  next one that works brings to the file, since a write copies the whole list.
* **One client per port** (`PortInv`).  Only the dispatcher reserves, and it does so
  from a port that is not marked; a port is marked from its reservation until its
  handler has answered; and a client's own handler has no port before (`Marked`,
  `Unserved`, `Portless`).  Descriptors play no part in it, so the second close cannot
  break it.
* **The front of the snapshots** (`Credit`).  A maker that may still erase has pushed
  before: there are at most as many such makers as there are snapshots.  This is a
  fact about a cardinality, and each step changes both sides by the same amount.
* **No listed snapshot is deleted** (`ExistInv`).  An id that a maker has read stays
  at the front until somebody erases it, since pushes are made at the other end;
  after its own erase it is in the list no more, whichever record that erase took.
* **What the pool promises** (`VolumePoolLifeProofs`).  A step can withdraw volumes,
  offer one, or send one, and for each kind of step it is shown which.  That what is
  withdrawn was not spent, and that what is offered is new, come from `LedgerInv`:
  a creator's volume is known to nobody (`FreshInv`), and everything known was
  created (`CreatedInv`).  That what is sent is spent is `TakenInv`: a handler that
  is to send has written its mark.  That the machine restarts takes no promise back,
  since `remount` only keeps records or drops them.  That the file can be opened is
  needed: the mark of a volume that was given away must reach the file.
* **What was sent can be attached** (`DetachedInv`).  A handler sends only what it saw
  available after its detach, and nobody attaches or mounts a volume here but its
  creator, who by `FreshInv` holds none that was sent, and main in `remount`, which
  mounts only what is attached.  A mount here needs an attachment here (`MountInv`).
  `FreshInv` and `CreatedInv` are inductive by themselves (`OwnedInv`), without any
  assumption: no step but a creator's own makes its volume known (`Discreet`), a
  failed write makes nothing known that was not, and a stop ends the creators.
* **Used is mounted** (`UsedInv`).  The status `used` is written in one place, but it
  travels: through the list, the copies, the file, and back by a restart.  So the
  invariant speaks of all of them, and rests on `AnswerInv`: the answer OK stays, and
  the volume it was given for is the one its handler holds.  Two takers of one
  volume do not break it, which is why it needs no assumption.
* **The ports as leases** (`DispatcherKeepsPromise`).  Under the mapping the array is
  redundant: what is marked is lent or lost, what is not is free (`Marked`, `Unlent`).
  So a port the dispatcher finds unmarked is available in `PortLease`, and that it
  finds none means that there is none.  A handler has no port that is not its
  client's, and gives it back once (`PortsExclusive`, `Unserved`).
* **No port is lost** (`AccountInv`).  A port is lent to a client once, as its request
  is read once (`Unlent`), so a new reservation takes nobody's place; and the only
  step of the dispatcher that drops a reservation finds its client gone.
* **The latest snapshot** (`PlaceInv`).  As long as erasures are left, the creator's
  snapshot is at that place of the list: pushes are made behind it, and an erasure
  moves it forward by one.  What is listed has not been deleted.
* **Device names** (`NameInv`).  Two creators may hold one name, and nothing in the
  code keeps them apart: it is EC2's refusal of a name in use (`NamesUnique`) on
  which all rests, with the creator's looking at what attach returned.  From the
  accepted call on the volume under a creator's name is its own (`OwnVolume`), and an
  idle record's volume is attached under the name of its record (`IdleAttached`), so
  two idle records bear two names (`IdleSame`).  Of marked records this does not hold.
* **Names on hold** (`NextCounted`).  Two cardinalities, of the places of a name in the
  list and of the creators that work with it, change by the same step.  The lemma
  `PlacesWithout` gives the bijection between the places before and after
  `remove_element`.
* **The date** (`DateInv`).  A stream takes the date that is in memory, which only grows
  while the daemon is up, so what is on its way to the file is never later
  (`DatesOrdered`); a stop leaves no pass, and a start makes both equal.
* **What a pass reaches** (`PassInv`).  A pass finds a volume when the place its copy
  names is where the volume is mounted.  Other threads add, mark and drop records under
  it; but an idle record names this machine (`HomeInv`), a record never becomes idle
  again, and while a pass runs start-up is over (`LoopInv`), so that only creators
  mount volumes here, their own, which is in no list and no copy (`OwnInv`).  `ReachInv`
  then follows the index through the copy.  It says of each volume that *some* record
  of the copy led to it, so the ids need not be unique; and it needs neither of the
  pool's assumptions.
* **Passes at once** (`OverlapInv`).  The passes of main that run or are about to are at
  most one more than the SyncAll passes that have *ended*, and not even one more while
  the flag is down: each pass of main that ends pays for its own lowering of the flag,
  each SyncAll pass for one more.
* **An orderly stop** (`StopInv`).  The dispatcher has been joined when the flags are
  looked at, and main never returns to its loop, so nobody is left to start anything
  (`JoinInv`).  A flag is shared by the operations of its kind: it can be trusted for
  as long as there has been one of them only (`FlagInv`), and main raises it before it
  starts that one (`RaisedInv`).

Only model-checked: liveness (`Answered`, `Dispatched`, `JoinEnds`, `WaitsEnd`), which is
out of the prover's reach.  Every invariant and every refinement that a passing run
checks is a theorem.

## 6. Where the code differs from what it says

Three have a run, which finds the behaviour:

* `used_alone` (`Volumes.cpp:820`): the comment above warns against keeping an index,
  and the line uses one.  Two takers can find the same idle volume before either
  marks it; the later one detaches it from the client the earlier one gave it to.
* `spares_mounted` (`Volumes.cpp:984`): after a restart of the machine, `remount` erases
  a record whose mount failed and then increments its index; the next record is
  not looked at, stays idle, and is not mounted, and the log says all are.
* `stop_graceful` (`volumesd.cpp:753`): a flag is shared by all operations of its kind
  and set only when the thread runs; the process exits while one is running.

Others follow from the same models.  Each is a behaviour of them that
a formula written for it shows; they have no run of their own.

Of the pool:

* when two takers hold one volume, a failed delivery of the one removes the record
  that the other's client uses (comment at `volumesd.cpp:458`);
* `createDisk_handler` lists a volume before it decrements `inProgressVolumes`, and
  main, counting it twice, removes a volume from a pool of the right size
  (`volumesd.cpp:568`, `225`);
* a volume whose mount was given up is detached, but neither listed nor deleted
  (`Volumes.cpp:1080`);
* `volumesd-client.cpp:144-145` says a client that cannot mount answers FAILED "so disk
  status can be set back to idle"; the daemon drops the record after a FAILED as after a
  broken connection, and deletes the volume after the latter only
  (`volumesd.cpp:439-490`);
* a client that gives its volume back connects to another address than the one it
  asked at; the request may be lost, and the record then stays `used`
  (`volumesd-client.cpp:271`, `NotifyLost`);
* after a stop a volume the file lists as `inprogress` stays so for ever: no thread
  works on it, and it is not offered again (`Volumes.cpp:912`);

of creators (`Provision`):

* a creator whose `create-volume` failed polls for an id that is an error text, for
  ever, and `inProgressVolumes` counts it all the while (`Volumes.cpp:79`);
* `attach` gives up when its counter *is* 15; a poll that fails counts twice and may
  pass it, and then only EC2's answer can end the wait (`Volumes.cpp:141`);
* a failed mount is tried again "with a new mountpoint" (`Volumes.cpp:1074`), which
  `randomString`, seeded with the second, draws again when the failure was quick; two
  creators in one second draw the same one, and may mount one volume over the other;
* when all names are taken the last one is handed out (`get_device`): EC2 refuses it;
* a marked record keeps a device name that the record of a later volume may bear
  (`Volumes.cpp:829`, `476`);

of the dispatcher:

* a port is lent again while its last listening socket is still open, and a handler
  may accept, and serve, another's client (`volumesd.cpp:316`);
* a port is marked free before its listening socket is closed, so that the next
  `bind` can fail, with an exception nobody catches (`volumesd.cpp:498`);

of snapshots:

* a file with several snapshots too many, which makers that overtake each other can
  leave, loses only one when it is loaded (`Snapshots.cpp:233`);
* makers append in the order in which they finish, so the last snapshot need not
  be the newest (`Snapshots.cpp:42`, `130`), and main starts several while the list
  is not full (`volumesd.cpp:202`);
* two makers that both find the list too long both erase, so it can fall below its
  maximum, and to nothing, and the newest snapshot be deleted (`Snapshots.cpp:141`);
* two makers that write the snapshots file at once leave lines of the older, longer
  list at its end (`Snapshots.cpp:258`); and a stop between the deletion and the
  write leaves an id that is gone (`Snapshots.cpp:145`).  After a start the latest may
  then be such an id, and a creator that uses it spins;

of the synchronization (`SyncPool`):

* `volumesSync_handler`'s comment says "a reference rather than getting a copy"
  (`volumesd.cpp:631`); the code copies the list, so a pass also works on volumes that
  have left it, at their old mount points, and leaves out what was added since;
* a SyncAll pass runs beside a periodic one, and the first to end clears the flag of
  both (`volumesd.cpp:356`, `646`);

of the stop:

* the dispatcher may leave its loop after `sigterm` is set and before `signalHandler`
  connects: the refused connection's exception ends the process
  (`volumesd.cpp:740`, `744`);
* `signalHandler` looks at five of the six flags: a synchronization is cut off
  (`volumesd.cpp:753`);
* a signal between `snapshotsOpPending = 1` and the start of the thread leaves a flag
  nobody clears, and `signalHandler` waits for ever (`volumesd.cpp:205`).

## 7. Not modelled, and why

* **Mount points in VolumePool.**  Its `Umount` acts on the volume, the code's on the
  path of the record (`Volumes.cpp:843`), which is the same as long as no two volumes
  are mounted on one path.  `Provision` draws mount points as the code does; its
  `Released` takes off the mounts of the volume too.
* **Running out of descriptors.**  `Dispatcher` waits for a free number, where the
  code's `accept` or `socket` fails with an exception: the dispatcher's outer catch
  (`volumesd.cpp:379`) ends its thread.  In `dispatch_fair` there are always enough.
* **Tearing of one vector operation.**  A `push_back` that reallocates while another
  thread reads has no bounded set of outcomes.  Whole accesses are the steps.
* **Message boundaries**: a send or a receive is one step; a request is read whole.
* **rsync's duration and result**: a pass's visit to a volume is one step, and the
  code drops the result.  `conf.SyncVolumes` is taken as on.
* **The polls of `create` and `detach` one by one**: a wait of `create` ends when EC2 is
  done, and one of `detach` may be given up at any moment (`DetachTimeout`).  Only the
  counters of `attach`, `del` and the mount loop are modelled.
* **ensure_mounted**'s part about the target file system, once at start-up.
* **Utilities, configuration, logger**: shell commands, files and text; their failures
  are choices of the modules that use them.  What decides something (`remove_element`,
  `randomString`, `mountfs`, `is_mounted`) is modelled where it is called.
* **The client's `get_device` and search for its volume**: one client machine acts
  alone there.

## 8. Plan

Done: the five components' models, the compositions `SyncPool` and `SnapshotUse`, the
abstract `VolumeLife` and `PortLease` with their refinements checked and proved, and
the theorems of section 5.  What is left, in this order:

1. `Provision` in the place of `VolumePool`'s creator: that its steps implement
   `CreateVolume`, `AttachDone`, `MountDone` and the failures, under a mapping of `pc`.
2. What the snapshots promise, as a module of its own like the two above: a list that
   only grows at one end and shrinks at the other, and a deletion after each erasure.
