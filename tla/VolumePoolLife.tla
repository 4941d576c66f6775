---------------------------- MODULE VolumePoolLife ----------------------------
(***************************************************************************)
(* VolumePool implements VolumeLife.  A volume is offered while the list,  *)
(* the file or a copy on its way to the file calls it idle, since a        *)
(* restart brings back what the file says; it is spent when it exists, is  *)
(* offered nowhere and is in the hands of no creator.                      *)
(***************************************************************************)
EXTENDS VolumePoolInv

Spent ==
  {v \in Volume : ebs[v] # "absent" /\ v \notin Offered /\ \A t \in Creator : vid[t] # v}

Life == INSTANCE VolumeLife WITH offered <- Offered, spent <- Spent, given <- reply

\* OfferedOnce: every step of the daemon's threads, of a stop and of a restart
\* maps to a step of VolumeLife or to none: a volume that has left the list, the
\* file and all copies never comes back, and a client is sent one volume, which
\* no thread and no later run of the daemon can offer again.
OfferedOnce == Life!Spec

\* A handler sends at most once.
SentInv == \A c \in Client : reply[c] # NoVolume => pc[c] \in {"ack", "del", "done"}
=============================================================================
