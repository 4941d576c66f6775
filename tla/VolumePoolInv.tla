---------------------------- MODULE VolumePoolInv ----------------------------
(***************************************************************************)
(* Why IdleReady and CrashSafe hold: the inductive invariant, in parts.    *)
(* A volume is offered while the list, the file or a copy on its way to    *)
(* the file calls it idle.  A thread touches a volume only when it is no   *)
(* longer offered anywhere, and only AddVolume offers one again.           *)
(***************************************************************************)
EXTENDS VolumePool

\* TypeOK, and what AddVolume needs to keep it: acquire mounts and adds a volume
\* only when attach succeeded, which it does not for the empty id.
TypeInv ==
  /\ TypeOK
  /\ \A t \in Creator : pc[t] \in {"mount", "add"} => vid[t] # NoVolume

Unique(s) == \A i, j \in DOMAIN s : s[i].id = s[j].id => i = j

Offered == Idle(m_volumes) \cup Idle(volumeFile) \cup UNION {Idle(buf[t]) : t \in Thread}

Listed == Ids(m_volumes) \cup Ids(volumeFile) \cup UNION {Ids(buf[t]) : t \in Thread}

\* Where a taker holds a volume it has marked.
Holding == {"umount", "detach", "detaching", "undetached", "send", "ack", "del", "drop"}

\* Only one thread has the mutex, and only a thread that has copied has a copy.
MutexInv ==
  /\ \A t, u \in Thread : (wr[t] \in {"open", "copied"} /\ wr[u] \in {"open", "copied"}) => t = u
  /\ \A t \in Thread : wr[t] # "copied" => buf[t] = <<>>

UniqueInv == Unique(m_volumes) /\ Unique(volumeFile) /\ \A t \in Thread : Unique(buf[t])

\* While the daemon is down it has no list and no thread.
DownInv ==
  pc[Main] = "down" =>
    /\ m_volumes = <<>>
    /\ \A t \in Thread : wr[t] = "no"
    /\ \A t \in Worker : pc[t] \in {"off", "done"}

OfferedReady == \A v \in Offered : Ready(v)

\* Until start-up is over main is alone, and only it writes the list then.
StartInv ==
  /\ pc[Main] = "remount" => \A t \in Worker : wr[t] = "no" /\ pc[t] \in {"off", "done"}
  /\ pc[Main] # "remount" => wr[Main] = "no"

\* What the file may still offer has not left the list, but for what remount has
\* dropped and main has not written yet.
OfferedListed == (pc[Main] # "down" /\ wr[Main] # "due") => Offered \subseteq Ids(m_volumes)

\* A taken volume is no longer offered once its thread has written the list.
TakenInv ==
  \A t \in Taker :
    /\ pc[t] \in {"off", "pick", "read"} => vid[t] = NoVolume
    /\ (pc[t] \in Holding /\ vid[t] # NoVolume) =>
         /\ vid[t] \notin Idle(m_volumes) \cup Idle(buf[t])
         /\ wr[t] = "no" => vid[t] \notin Offered

\* What a client was sent, and what a client gives back, is not offered.
GivenInv ==
  /\ \A c \in Client : reply[c] \notin Offered
  /\ \A t \in Releaser : vid[t] \notin Offered

\* The volume a creator works on is known to nobody else.
FreshInv ==
  \A t \in Creator :
    vid[t] # NoVolume =>
      /\ vid[t] \notin Listed
      /\ \A u \in Thread \ {t} : vid[u] # vid[t]
      /\ \A c \in Client : reply[c] # vid[t]

\* Every volume the program knows has been created.
CreatedInv ==
  /\ \A v \in Listed : ebs[v] # "absent"
  /\ \A t \in Thread : vid[t] # NoVolume => ebs[vid[t]] # "absent"
  /\ \A c \in Client : reply[c] # NoVolume => ebs[reply[c]] # "absent"

\* A creator that is about to add its volume has it attached and mounted.
AddInv == \A t \in Creator : pc[t] = "add" => Ready(vid[t])

\* A creator's volume is its own: whatever fails, and whatever is restarted.
OwnedInv == FreshInv /\ CreatedInv

\* Who may still be offered what, and who works on it: while files can be opened,
\* whether or not the machine restarts.
LedgerInv ==
  /\ MutexInv /\ UniqueInv /\ DownInv /\ StartInv
  /\ OfferedListed /\ TakenInv /\ GivenInv
  /\ FreshInv /\ CreatedInv /\ AddInv

\* And while the machine stays up, all of it is ready.
ReadyInv == LedgerInv /\ OfferedReady

\* The inductive form of FilePersisted: when the last write is copied and no
\* other is due, it carries the list, whatever writes have failed before it.
FileInv ==
  (pc[Main] # "down" /\ \A t \in Thread : wr[t] \notin {"due", "open"}) =>
    /\ \A t \in Thread : wr[t] = "copied" => buf[t] = m_volumes
    /\ (~writeFailed /\ \A t \in Thread : wr[t] = "no") => volumeFile = m_volumes
=============================================================================
